---- MODULE Spec2Model ----
(***************************************************************************)
(* State-machine model of the taxai query pipeline:                        *)
(*   - ai_engine/caching.py          QueryCache (Redis / in-memory)        *)
(*   - ai_engine/query_processor.py  process_tax_query and its helpers     *)
(*   - ai_engine/model_loader.py     ModelLoader.load_model / generate     *)
(*   - knowledge_base/src/embedding.py  EmbeddingGenerator.chunk_document  *)
(*                                                                         *)
(* Python strings are sequences of one-character strings, so that lower(), *)
(* strip(), join() and sort() are computed and not assumed.                *)
(***************************************************************************)
EXTENDS Integers, Sequences, FiniteSets, TLC

VARIABLES
    use_redis,      \* QueryCache.use_redis
    cache_ttl,      \* QueryCache.ttl
    memory_cache,   \* QueryCache.memory_cache : key -> response
    redis,          \* the Redis keyspace: key -> [data, expires]
    now,            \* wall clock, in seconds
    api_mode,       \* config.USE_HUGGINGFACE_API
    model,          \* model_loader.model
    tokenizer,      \* model_loader.tokenizer
    call,           \* the last operation: arguments, outcome, collaborators called
    set_log,        \* history: key -> time and ttl of the last set still in force
    kin,            \* _generate_cache_key: the two (query, context) inputs compared
    kout,           \* _generate_cache_key: the two pre-hash key strings
    cd,             \* chunk_document: arguments and local variables of the loop
    bs,             \* TaxDocumentChunker._chunk_by_size: arguments and result
    rch,            \* rag.preprocessing.chunk_document: arguments and result
    pp,             \* TaxDocumentPreprocessor.preprocess: text, once and twice processed
    kb,             \* knowledge_base TaxLawVectorStore: collection and last operation
    rag,            \* TaxLawRAG: collection and last operation
    cs,             \* core.retrieval TaxLawVectorStore: collection, update in progress
    ba,             \* TaxLawKnowledgeBase.batch_add_documents: files, store, result
    rt,             \* TaxLawRetriever.retrieve_tax_laws: candidates and returned list
    cf,             \* calculate_confidence_score: arguments and score
    ep,             \* main.py: the last request to the application and its answer
    aq              \* app.api.query: the last POST /api/query and its answer

vars == <<use_redis, cache_ttl, memory_cache, redis, now, api_mode, model,
          tokenizer, call, set_log, kin, kout, cd, bs, rch, pp, kb, rag, cs, ba, rt,
          cf, ep, aq>>

cacheVars == <<use_redis, cache_ttl, memory_cache, redis, now, set_log>>
loaderVars == <<api_mode, model, tokenizer>>
keyVars == <<kin, kout>>
apiVars == <<cf, ep, aq>>
ingestVars == <<bs, rch, pp, kb, rag, cs, ba, rt, apiVars>>

----------------------------------------------------------------------------
(* Bounds of the model *)

MaxTime == 2
MaxTtl == 1
MaxDocLen == 4
MaxChunkSize == 3
MaxIter == 5

----------------------------------------------------------------------------
(* Python values *)

Min(x, y) == IF x < y THEN x ELSE y
Max(x, y) == IF x > y THEN x ELSE y

None == [t |-> "None"]
PyStr(s) == [t |-> "str", v |-> s]
PyList(l) == [t |-> "list", v |-> l]

\* Python truthiness of None, a str or a list
Truthy(x) == x.t # "None" /\ Len(x.v) > 0

----------------------------------------------------------------------------
(* Python str operations on sequences of characters *)

Whitespace == {" ", "\n", "\t"}

UpperToLower ==
    [c \in {"A", "B", "C", "D", "G", "I", "O", "R", "T", "X"} |->
        CASE c = "A" -> "a" [] c = "B" -> "b" [] c = "C" -> "c"
          [] c = "D" -> "d" [] c = "G" -> "g" [] c = "I" -> "i"
          [] c = "O" -> "o"
          [] c = "R" -> "r" [] c = "T" -> "t" [] c = "X" -> "x"]

LowerChar(c) == IF c \in DOMAIN UpperToLower THEN UpperToLower[c] ELSE c

\* str.lower()
Lower(s) == [i \in 1..Len(s) |-> LowerChar(s[i])]

RECURSIVE LStrip(_)
LStrip(s) ==
    IF s # <<>> /\ Head(s) \in Whitespace THEN LStrip(Tail(s)) ELSE s

RECURSIVE RStrip(_)
RStrip(s) ==
    IF s # <<>> /\ s[Len(s)] \in Whitespace
    THEN RStrip(SubSeq(s, 1, Len(s) - 1)) ELSE s

\* str.strip()
Strip(s) == RStrip(LStrip(s))

\* re.sub(r'\s+', ' ', s): every maximal run of whitespace becomes one space
RECURSIVE CollapseSpaces(_)
CollapseSpaces(s) ==
    IF s = <<>> THEN <<>>
    ELSE IF Head(s) \in Whitespace
         THEN <<" ">> \o CollapseSpaces(LStrip(s))
         ELSE <<Head(s)>> \o CollapseSpaces(Tail(s))

\* `sub in s` for strings
Contains(s, sub) ==
    \E i \in 0..(Len(s) - Len(sub)) : SubSeq(s, i + 1, i + Len(sub)) = sub

\* code points of the characters that occur in the model
CodePoint ==
    [c \in {"\t", "\n", " ", ",", ".", ":", "_",
            "A", "B", "C", "D", "G", "O", "R", "T", "X",
            "a", "b", "c", "d", "e", "g", "i", "l", "n", "o", "r", "t", "w", "x"} |->
        CASE c = "\t" -> 9 [] c = "\n" -> 10 [] c = " " -> 32 [] c = "," -> 44
          [] c = "." -> 46 [] c = ":" -> 58 [] c = "_" -> 95
          [] c = "A" -> 65 [] c = "B" -> 66 [] c = "C" -> 67 [] c = "D" -> 68
          [] c = "G" -> 71 [] c = "O" -> 79 [] c = "R" -> 82 [] c = "T" -> 84
          [] c = "X" -> 88
          [] c = "a" -> 97 [] c = "b" -> 98 [] c = "c" -> 99 [] c = "d" -> 100
          [] c = "e" -> 101 [] c = "g" -> 103 [] c = "i" -> 105 [] c = "l" -> 108
          [] c = "n" -> 110 [] c = "o" -> 111 [] c = "r" -> 114 [] c = "t" -> 116
          [] c = "w" -> 119 [] c = "x" -> 120]

\* a < b for Python strings (lexicographic on code points)
RECURSIVE StrLess(_, _)
StrLess(a, b) ==
    IF b = <<>> THEN FALSE
    ELSE IF a = <<>> THEN TRUE
    ELSE IF Head(a) = Head(b) THEN StrLess(Tail(a), Tail(b))
    ELSE CodePoint[Head(a)] < CodePoint[Head(b)]

RECURSIVE InsertSorted(_, _)
InsertSorted(x, l) ==
    IF l = <<>> THEN <<x>>
    ELSE IF StrLess(x, Head(l)) THEN <<x>> \o l
    ELSE <<Head(l)>> \o InsertSorted(x, Tail(l))

\* list.sort() of a list of strings (stable; equal strings are identical)
RECURSIVE SortList(_)
SortList(l) ==
    IF l = <<>> THEN <<>> ELSE InsertSorted(l[Len(l)], SortList(SubSeq(l, 1, Len(l) - 1)))

\* sep.join(l)
RECURSIVE Join(_, _)
Join(sep, l) ==
    IF l = <<>> THEN <<>>
    ELSE IF Len(l) = 1 THEN l[1]
    ELSE l[1] \o sep \o Join(sep, Tail(l))

----------------------------------------------------------------------------
(* ai_engine/caching.py : QueryCache *)

\* hashlib.md5(...).hexdigest(): a digest that identifies its input
\* (collisions of MD5 itself are outside the model)
md5(s) == [md5 |-> s]

\* the context part of the key: ", ".join(sorted list) or str(context)
ContextStr(context) ==
    IF context.t = "list" THEN Join(<<",", " ">>, SortList(context.v))
    ELSE context.v

\* key_content of _generate_cache_key, the string that is hashed
KeyContent(query, context) ==
    IF Truthy(context)
    THEN Strip(Lower(query)) \o <<":">> \o ContextStr(context)
    ELSE Strip(Lower(query))

\* QueryCache._generate_cache_key
GenerateCacheKey(query, context) ==
    [prefix |-> "taxai:query:", digest |-> md5(KeyContent(query, context))]

\* the caller's context object after _generate_cache_key: context.sort()
\* sorts a list argument in place
SortedInPlace(context) ==
    IF Truthy(context) /\ context.t = "list" THEN PyList(SortList(context.v))
    ELSE context

\* json.dumps / json.loads of a response dict
JsonDumps(response) == [json |-> response]
JsonLoads(data) == data.json

\* redis.get: the value of a key that exists and has not expired
RedisGet(store, t, key) ==
    IF key \in DOMAIN store /\ t < store[key].expires THEN store[key].data ELSE None

\* redis.setex(key, ttl, data)
RedisSetex(store, t, key, ttl, data) ==
    [k \in DOMAIN store \cup {key} |->
        IF k = key THEN [data |-> data, expires |-> t + ttl] ELSE store[k]]

\* the live keys of the Redis keyspace
RedisKeys(store, t) == {k \in DOMAIN store : t < store[k].expires}

\* redis.delete(*keys): the keyspace without them
RedisDelete(store, keys) == [k \in DOMAIN store \ keys |-> store[k]]

\* (variant: dict.setdefault, an existing entry is kept)
MemStoreKeepExisting(mc, key, response) ==
    [k \in DOMAIN mc \cup {key} |->
        IF k = key /\ key \notin DOMAIN mc THEN response ELSE mc[k]]

\* self.memory_cache[cache_key] = response
MemStore(mc, key, response) ==
    [k \in DOMAIN mc \cup {key} |-> IF k = key THEN response ELSE mc[k]]

\* del self.memory_cache[cache_key]
MemDelete(mc, key) == [k \in DOMAIN mc \ {key} |-> mc[k]]

\* QueryCache.get: the value returned
CacheGet(query, context) ==
    LET cache_key == GenerateCacheKey(query, context) IN
    IF use_redis
    THEN LET cached_data == RedisGet(redis, now, cache_key) IN
         IF cached_data # None THEN JsonLoads(cached_data) ELSE None
    ELSE IF cache_key \in DOMAIN memory_cache THEN memory_cache[cache_key] ELSE None

\* QueryCache.set: the effective ttl
EffectiveTtl(ttl) == IF ttl = None THEN cache_ttl ELSE ttl.v

\* QueryCache.set: the stores after the call
RedisAfterSet(query, response, context, ttl) ==
    IF use_redis
    THEN RedisSetex(redis, now, GenerateCacheKey(query, context),
                    EffectiveTtl(ttl), JsonDumps(response))
    ELSE redis

MemoryAfterSet(query, response, context) ==
    IF use_redis THEN memory_cache
    ELSE MemStore(memory_cache, GenerateCacheKey(query, context), response)

\* history of the sets in force (not program state)
LogAfterSet(query, context, ttl) ==
    LET key == GenerateCacheKey(query, context) IN
    [k \in DOMAIN set_log \cup {key} |->
        IF k = key THEN [at |-> now, ttl |-> EffectiveTtl(ttl)] ELSE set_log[k]]

LogWithout(keys) == [k \in DOMAIN set_log \ keys |-> set_log[k]]

EmptyMap == [k \in {} |-> None]

----------------------------------------------------------------------------
(* The QueryCache operations as steps (specification SpecCache) *)

Tax == <<"T", "a", "x">>
tax == <<"t", "a", "x">>
dog == <<"d", "o", "g">>
a_b == <<"a", ",", " ", "b">>

CacheQueries == {Tax, tax}
CacheContexts == {None, PyList(<<<<"b">>, <<"a">>>>)}
CacheResponses ==
    {[query |-> Tax, response |-> "answer 1"], [query |-> tax, response |-> "answer 2"]}
TtlArgs == {None} \cup {[t |-> "int", v |-> n] : n \in 1..MaxTtl}

IdleCall == [op |-> "init"]
IdleKey == [pc |-> "idle"]
IdleChunk == [pc |-> "idle"]
Idle == [pc |-> "idle"]

\* the ingestion and retrieval components are not in use
ApiIdle == cf = Idle /\ ep = Idle /\ aq = Idle

IngestIdle ==
    /\ bs = Idle /\ rch = Idle /\ pp = Idle /\ kb = Idle
    /\ rag = Idle /\ cs = Idle /\ ba = Idle /\ rt = Idle
    /\ ApiIdle

\* QueryCache.set(query, response, context, ttl)
Set(query, response, context, ttl) ==
    /\ redis' = RedisAfterSet(query, response, context, ttl)
    /\ memory_cache' = MemoryAfterSet(query, response, context)
    /\ set_log' = LogAfterSet(query, context, ttl)
    /\ call' = [op |-> "set", query |-> query, context |-> context,
                response |-> response, key |-> GenerateCacheKey(query, context),
                ret |-> None]
    /\ UNCHANGED <<use_redis, cache_ttl, now>>

\* QueryCache.get(query, context)
Get(query, context) ==
    /\ call' = [op |-> "get", query |-> query, context |-> context,
                key |-> GenerateCacheKey(query, context),
                ret |-> CacheGet(query, context)]
    /\ UNCHANGED cacheVars

\* QueryCache.invalidate: the value returned
InvalidateResult(query, context) ==
    LET cache_key == GenerateCacheKey(query, context) IN
    IF use_redis THEN cache_key \in RedisKeys(redis, now)
    ELSE cache_key \in DOMAIN memory_cache

\* QueryCache.invalidate(query, context)
Invalidate(query, context) ==
    LET cache_key == GenerateCacheKey(query, context) IN
    /\ redis' = IF use_redis THEN RedisDelete(redis, {cache_key}) ELSE redis
    /\ memory_cache' = IF use_redis THEN memory_cache
                       ELSE MemDelete(memory_cache, cache_key)
    /\ set_log' = LogWithout({cache_key})
    /\ call' = [op |-> "invalidate", query |-> query, context |-> context,
                key |-> cache_key, ret |-> InvalidateResult(query, context)]
    /\ UNCHANGED <<use_redis, cache_ttl, now>>

\* QueryCache.clear_all()
ClearAll ==
    /\ redis' = IF use_redis THEN EmptyMap ELSE redis
    /\ memory_cache' = IF use_redis THEN memory_cache ELSE EmptyMap
    /\ set_log' = EmptyMap
    /\ call' = [op |-> "clear_all"]
    /\ UNCHANGED <<use_redis, cache_ttl, now>>

\* one second passes
Tick ==
    /\ now < MaxTime
    /\ now' = now + 1
    /\ call' = [op |-> "tick"]
    /\ UNCHANGED <<use_redis, cache_ttl, memory_cache, redis, set_log>>

\* QueryCache.__init__ with either backend; the loader and the other
\* components are idle in this specification
InitCache ==
    /\ use_redis \in BOOLEAN
    /\ cache_ttl \in 1..MaxTtl
    /\ memory_cache = EmptyMap
    /\ redis = EmptyMap
    /\ set_log = EmptyMap
    /\ now = 0
    /\ api_mode = TRUE
    /\ model = None
    /\ tokenizer = None
    /\ call = IdleCall
    /\ kin = IdleKey
    /\ kout = IdleKey
    /\ cd = IdleChunk
    /\ IngestIdle

NextCache ==
    \/ \E q \in CacheQueries, r \in CacheResponses, c \in CacheContexts, t \in TtlArgs :
          Set(q, r, c, t) /\ UNCHANGED <<loaderVars, keyVars, cd, ingestVars>>
    \/ \E q \in CacheQueries, c \in CacheContexts :
          Get(q, c) /\ UNCHANGED <<loaderVars, keyVars, cd, ingestVars>>
    \/ \E q \in CacheQueries, c \in CacheContexts :
          Invalidate(q, c) /\ UNCHANGED <<loaderVars, keyVars, cd, ingestVars>>
    \/ ClearAll /\ UNCHANGED <<loaderVars, keyVars, cd, ingestVars>>
    \/ Tick /\ UNCHANGED <<loaderVars, keyVars, cd, ingestVars>>

SpecCache == InitCache /\ [][NextCache]_vars

----------------------------------------------------------------------------
(* Properties of QueryCache (SpecCache) *)

SameEntry(q, c) == call'.key = GenerateCacheKey(q, c)

C8_TtlExpiry ==
    (call.op = "get" /\ call.key \in DOMAIN set_log
       /\ now - set_log[call.key].at > set_log[call.key].ttl)
    => call.ret = None

----------------------------------------------------------------------------
(* QueryCache._generate_cache_key on two inputs (specification SpecKey) *)

KeyQueries == {Tax, tax, <<"t", "a", "x", " ">>, <<"a", ":", "b">>, <<"a">>}
KeyContexts ==
    {None, PyList(<<>>), PyStr(<<"b">>), PyList(<<<<"b">>>>),
     PyList(<<<<"a">>, <<"b">>>>), PyList(<<<<"b">>, <<"a">>>>), PyList(<<a_b>>)}
KeyInputs == [query : KeyQueries, context : KeyContexts]

InitKey ==
    /\ kin \in [pc : {"ready"}, a : KeyInputs, b : KeyInputs]
    /\ kout = IdleKey
    /\ use_redis = FALSE
    /\ cache_ttl = 1
    /\ memory_cache = EmptyMap
    /\ redis = EmptyMap
    /\ set_log = EmptyMap
    /\ now = 0
    /\ api_mode = TRUE
    /\ model = None
    /\ tokenizer = None
    /\ call = IdleCall
    /\ cd = IdleChunk
    /\ IngestIdle

\* both keys are generated; the list arguments are left sorted
GenerateKeys ==
    /\ kin.pc = "ready"
    /\ kout' = [pc |-> "done",
                a |-> GenerateCacheKey(kin.a.query, kin.a.context),
                b |-> GenerateCacheKey(kin.b.query, kin.b.context)]
    /\ kin' = [pc |-> "done",
               a |-> [query |-> kin.a.query, context |-> SortedInPlace(kin.a.context)],
               b |-> [query |-> kin.b.query, context |-> SortedInPlace(kin.b.context)]]
    /\ UNCHANGED <<cacheVars, loaderVars, call, cd, ingestVars>>

NextKey == GenerateKeys

SpecKey == InitKey /\ [][NextKey]_vars

\* the query as the key sees it: lower-cased and trimmed
NormalizedQuery(q) == Strip(Lower(q))

\* equal contexts: the same value, lists compared after sorting (an absent
\* and an empty context both count as no context)
SameContext(c1, c2) ==
    \/ ~Truthy(c1) /\ ~Truthy(c2)
    \/ Truthy(c1) /\ Truthy(c2) /\ c1.t = c2.t
         /\ (IF c1.t = "list" THEN SortList(c1.v) = SortList(c2.v) ELSE c1.v = c2.v)

\* C7: two (query, context) pairs get the same key exactly when their
\* normalized queries are equal and their contexts are equal.
C7_KeyExactlyWhenEqual ==
    kout.pc = "done" =>
        ((kout.a = kout.b) <=>
            (/\ NormalizedQuery(kin.a.query) = NormalizedQuery(kin.b.query)
             /\ SameContext(kin.a.context, kin.b.context)))

----------------------------------------------------------------------------
(* knowledge_base/src/embedding.py : EmbeddingGenerator.chunk_document     *)
(* (specification SpecChunk: one step per iteration of the while loop)     *)

LookBack == 100

\* Python slice bound: negative indices count from the end, then clamp
SliceIndex(i, n) == IF i < 0 THEN Max(i + n, 0) ELSE Min(i, n)

\* s[lo:hi] for a string
Slice(s, lo, hi) ==
    SubSeq(s, SliceIndex(lo, Len(s)) + 1, SliceIndex(hi, Len(s)))

SentenceBreaks == {<<".", " ">>, <<".", "\n">>}

\* the for loop: the first i in range(end, max(start, end - 100), -1), going
\* down, with document[i-1:i+1] a sentence break; end itself when there is none
BreakPoint(document, start, end) ==
    LET candidates == {i \in (Max(start, end - LookBack) + 1)..end :
                          Slice(document, i - 1, i + 1) \in SentenceBreaks}
    IN IF candidates = {} THEN end
       ELSE CHOOSE i \in candidates : \A j \in candidates : j <= i

\* end of the current chunk
ChunkEnd(document, start, chunk_size) ==
    LET end == Min(start + chunk_size, Len(document)) IN
    IF end < Len(document) THEN BreakPoint(document, start, end) ELSE end

\* start of the next chunk
NextStart(end, overlap) == end - overlap

DocChars == {"a", ".", " "}
RECURSIVE StringsUpTo(_)
StringsUpTo(n) ==
    IF n = 0 THEN {<<>>}
    ELSE LET shorter == StringsUpTo(n - 1) IN
         shorter \cup {Append(s, c) : s \in {t \in shorter : Len(t) = n - 1}, c \in DocChars}

InitChunk ==
    /\ cd \in [pc : {"loop"}, document : StringsUpTo(MaxDocLen),
                chunk_size : 1..MaxChunkSize, overlap : 0..MaxChunkSize,
                start : {0}, chunks : {<<>>}]
    /\ use_redis = FALSE
    /\ cache_ttl = 1
    /\ memory_cache = EmptyMap
    /\ redis = EmptyMap
    /\ set_log = EmptyMap
    /\ now = 0
    /\ api_mode = TRUE
    /\ model = None
    /\ tokenizer = None
    /\ call = IdleCall
    /\ kin = IdleKey
    /\ kout = IdleKey
    /\ IngestIdle

\* one iteration of `while start < len(document)`
ChunkIteration ==
    /\ cd.pc = "loop"
    /\ cd.start < Len(cd.document)
    /\ Len(cd.chunks) < MaxIter
    /\ LET end == ChunkEnd(cd.document, cd.start, cd.chunk_size) IN
       cd' = [cd EXCEPT !.chunks = Append(@, Slice(cd.document, cd.start, end)),
                        !.start = NextStart(end, cd.overlap)]
    /\ UNCHANGED <<cacheVars, loaderVars, call, keyVars, ingestVars>>

\* the loop condition fails: return chunks
ChunkReturn ==
    /\ cd.pc = "loop"
    /\ ~(cd.start < Len(cd.document))
    /\ cd' = [cd EXCEPT !.pc = "done"]
    /\ UNCHANGED <<cacheVars, loaderVars, call, keyVars, ingestVars>>

NextChunk == ChunkIteration \/ ChunkReturn

SpecChunk == InitChunk /\ [][NextChunk]_vars

\* C10: for 0 <= overlap < chunk_size every iteration that is followed by
\* another one moves the start position strictly forward (so the loop
\* terminates).
C10_ForwardProgress ==
    [][(/\ cd.pc = "loop" /\ cd'.pc = "loop"
        /\ Len(cd'.chunks) = Len(cd.chunks) + 1
        /\ 0 <= cd.overlap /\ cd.overlap < cd.chunk_size)
       => cd'.start > cd.start]_vars

----------------------------------------------------------------------------
(* Response texts.  A generated text is represented by what the code reads *)
(* of it: its length, its stripped length, the citations the patterns of   *)
(* extract_citations match in it, the uncertainty phrases it contains and  *)
(* the lower-case words that occur in it.                                  *)

credit == <<"c", "r", "e", "d", "i", "t">>

GoodText ==
    [id |-> "answer citing Section 179", len |-> 121, stripped_len |-> 121,
     citations |-> {"Section 179"}, uncertainty |-> 0, contains |-> {credit}]
ShortText ==
    [id |-> "It depends.", len |-> 11, stripped_len |-> 11,
     citations |-> {}, uncertainty |-> 0, contains |-> {}]
EmptyText ==
    [id |-> "", len |-> 0, stripped_len |-> 0,
     citations |-> {}, uncertainty |-> 0, contains |-> {}]

\* query_processor.py line 171: the replacement for an empty or short output
IncompleteAnswerApology ==
    [id |-> "I apologize, but I couldn't generate a complete answer ...",
     len |-> 139, stripped_len |-> 139,
     citations |-> {}, uncertainty |-> 0, contains |-> {}]

\* model_loader.py line 170: returned for a status code other than 200
ApiErrorApology(status_code) ==
    [id |-> "I'm sorry, I encountered an error ... (status)", status |-> status_code,
     len |-> 94, stripped_len |-> 94,
     citations |-> {}, uncertainty |-> 0, contains |-> {}]

\* model_loader.py line 174: returned when the API call raises
ExceptionApology ==
    [id |-> "I apologize, but I encountered an error ... (Error: ...)",
     len |-> 113, stripped_len |-> 113,
     citations |-> {}, uncertainty |-> 0, contains |-> {}]

ModelOutputs == {GoodText, ShortText, EmptyText}

----------------------------------------------------------------------------
(* ai_engine/query_processor.py : helpers *)

TaxTerms ==
    {<<"t", "a", "x">>, <<"i", "r", "s">>,
     <<"d", "e", "d", "u", "c", "t", "i", "o", "n">>,
     credit, <<"f", "i", "l", "i", "n", "g">>}

RegardingTaxLaw ==
    <<"R", "e", "g", "a", "r", "d", "i", "n", "g", " ", "t", "a", "x", " ",
      "l", "a", "w", ":", " ">>

\* preprocess_query
PreprocessQuery(query) ==
    LET cleaned == CollapseSpaces(Strip(query)) IN
    IF ~\E term \in TaxTerms : Contains(Lower(cleaned), term)
    THEN RegardingTaxLaw \o cleaned
    ELSE cleaned

\* (variant: only the empty string is rejected)
IsEmptyString(query) == query = <<>>

\* `not query or not query.strip()`
IsBlankQuery(query) == query = <<>> \/ Strip(query) = <<>>

no_context == <<"n", "o", "_", "c", "o", "n", "t", "e", "x", "t">>

\* cache_key_context = context if context else "no_context"
CacheKeyContext(context) == IF Truthy(context) THEN context ELSE PyStr(no_context)

\* str.split(): the maximal runs of non-whitespace characters
RECURSIVE Split(_)
Split(s) ==
    LET t == LStrip(s) IN
    IF t = <<>> THEN <<>>
    ELSE LET n == CHOOSE k \in 1..Len(t) :
                    /\ \A i \in 1..k : t[i] \notin Whitespace
                    /\ (k = Len(t) \/ t[k + 1] \in Whitespace)
         IN <<SubSeq(t, 1, n)>> \o Split(SubSeq(t, n + 1, Len(t)))

\* format_tax_prompt: the instruction template around the query and the
\* numbered references, in the order of the list
FormatTaxPrompt(query, context) ==
    [query |-> query, references |-> IF Truthy(context) THEN context.v ELSE <<>>]

\* extract_citations: the set of matches of the citation patterns
ExtractCitations(text) == IF text.len = 0 THEN {} ELSE text.citations

\* the context items of which one of the first 10 words longer than 5
\* characters occurs in the response
ContextUsage(response, context) ==
    LET significant(ctx) ==
            LET words == SelectSeq(Split(ctx), LAMBDA w : Len(w) > 5) IN
            SubSeq(words, 1, Min(10, Len(words)))
        used(ctx) == \E i \in 1..Len(significant(ctx)) :
                        Lower(significant(ctx)[i]) \in response.contains
    IN Cardinality({i \in 1..Len(context.v) : used(context.v[i])})

\* calculate_confidence_score, lines 256-305: the local variable score
\* before it is clamped, in hundredths
UnclampedScore(response, citations, context) ==
    LET base == 70
        length_adj == IF response.len < 50 THEN -20
                      ELSE IF 100 <= response.len /\ response.len <= 1000 THEN 10
                      ELSE 0
        citation_adj == IF citations # {} THEN Min(Cardinality(citations) * 5, 15)
                        ELSE -10
        uncertainty_adj == IF response.uncertainty > 0
                           THEN -Min(response.uncertainty * 10, 30) ELSE 0
        context_adj == IF Truthy(context) /\ ContextUsage(response, context) > 0
                       THEN Min(ContextUsage(response, context) * 5, 10) ELSE 0
    IN base + length_adj + citation_adj + uncertainty_adj + context_adj

\* (variant: the score is returned as computed, without line 308)
ScoreNotClamped(response, citations, context) ==
    UnclampedScore(response, citations, context)

\* calculate_confidence_score, in hundredths
CalculateConfidenceScore(response, citations, context) ==
    Max(0, Min(UnclampedScore(response, citations, context), 100))

----------------------------------------------------------------------------
(* ai_engine/model_loader.py : ModelLoader *)

Loaded == [t |-> "object"]

\* what the environment does to load_model: hosted API (tokenizer download,
\* then GET of the model URL) or local weights
LoadOutcomes(api) ==
    IF api THEN {"ok", "http_error", "exception"}
    ELSE {"ok", "tokenizer_error", "model_error"}

\* ModelLoader.load_model: the value returned
LoadModelResult(outcome) == outcome = "ok"

\* ModelLoader.load_model: self.tokenizer afterwards
TokenizerAfterLoad(tok, outcome) ==
    IF outcome \in {"exception", "tokenizer_error"} THEN tok ELSE Loaded

\* ModelLoader.load_model: self.model afterwards (only the local branch
\* assigns it)
ModelAfterLoad(api, mdl, outcome) ==
    IF ~api /\ outcome = "ok" THEN Loaded ELSE mdl

\* what the backend does to one generation request
GenOutcomes(api) ==
    [kind : {"text"}, text : ModelOutputs] \cup
    (IF api THEN {[kind |-> "http_error", status |-> 503], [kind |-> "exception"]}
     ELSE {[kind |-> "exception"]})

\* (variant: the hosted branch without its try/except)
GenerateResponseUncaught(api, tok, mdl, gen) ==
    IF api
    THEN IF tok = None THEN [raised |-> TRUE, text |-> None]
         ELSE IF gen.kind = "text" THEN [raised |-> FALSE, text |-> gen.text]
         ELSE IF gen.kind = "http_error"
              THEN [raised |-> FALSE, text |-> ApiErrorApology(gen.status)]
         ELSE [raised |-> TRUE, text |-> None]
    ELSE IF mdl = None \/ tok = None THEN [raised |-> TRUE, text |-> None]
         ELSE IF gen.kind = "text" THEN [raised |-> FALSE, text |-> gen.text]
         ELSE [raised |-> TRUE, text |-> None]

\* ModelLoader.generate_response: the text returned, or an exception
GenerateResponse(api, tok, mdl, gen) ==
    IF api
    THEN IF tok = None THEN [raised |-> TRUE, text |-> None]
         ELSE IF gen.kind = "text" THEN [raised |-> FALSE, text |-> gen.text]
         ELSE IF gen.kind = "http_error"
              THEN [raised |-> FALSE, text |-> ApiErrorApology(gen.status)]
         ELSE [raised |-> FALSE, text |-> ExceptionApology]
    ELSE IF mdl = None \/ tok = None THEN [raised |-> TRUE, text |-> None]
         ELSE IF gen.kind = "text" THEN [raised |-> FALSE, text |-> gen.text]
         ELSE [raised |-> TRUE, text |-> None]

----------------------------------------------------------------------------
(* ai_engine/query_processor.py : process_tax_query *)

DefaultTtl == 604800

tax_credit == <<"t", "a", "x", " ">> \o credit

\* what retrieve_context_for_query does: raises, or returns a list of
\* formatted references
RetrievalOutcomes ==
    {[kind |-> "raise"], [kind |-> "list", refs |-> <<>>],
     [kind |-> "list", refs |-> <<tax_credit>>]}

\* (variant: the retrieval call without its try/except)
RetrieveContextUncaught(context, retrieval) ==
    IF Truthy(context) THEN [called |-> FALSE, raised |-> FALSE, context |-> context]
    ELSE IF retrieval.kind = "raise"
         THEN [called |-> TRUE, raised |-> TRUE, context |-> context]
         ELSE [called |-> TRUE, raised |-> FALSE, context |-> PyList(retrieval.refs)]

\* lines 150-160: the context used for the prompt; an exception of the
\* retrieval is caught and replaced by the empty list
RetrieveContext(context, retrieval) ==
    IF Truthy(context) THEN [called |-> FALSE, raised |-> FALSE, context |-> context]
    ELSE IF retrieval.kind = "raise"
         THEN [called |-> TRUE, raised |-> FALSE, context |-> PyList(<<>>)]
         ELSE [called |-> TRUE, raised |-> FALSE, context |-> PyList(retrieval.refs)]

\* (variant: the cached response is ignored)
IsCacheHitNever(cached_response) == FALSE

\* `if cached_response:`
IsCacheHit(cached_response) == cached_response # None

\* lines 169-171: an empty or short output is replaced
CompleteResponse(text) ==
    IF text.len = 0 \/ text.stripped_len < 20 THEN IncompleteAnswerApology ELSE text

\* lines 183-189: the final response object
MakeResult(query, response, citations, confidence_score, response_time) ==
    [query |-> query, response |-> response, citations |-> citations,
     confidence_score |-> confidence_score, response_time |-> response_time]

\* the call record of a process_tax_query that stops before doing anything
Started(query, context) ==
    [op |-> "process_tax_query", query |-> query, context |-> context,
     outcome |-> "running", result |-> None, lookup |-> None,
     gets |-> 0, loads |-> 0, retrievals |-> 0, generations |-> 0, sets |-> 0,
     load |-> "skipped", retrieval |-> "skipped", generation |-> "skipped",
     prompt |-> None, context_after |-> context]

\* process_tax_query(query, context); the environment decides what the
\* model load, the retrieval and the generation request do when the call
\* gets to them
ProcessTaxQuery(query, context) ==
    LET start_time == now
        processed_query == PreprocessQuery(query)
        cache_key_context == CacheKeyContext(context)
        cached_response == CacheGet(processed_query, cache_key_context)
        \* the caller's list is the object that get() sorted
        context1 == IF Truthy(context) THEN SortedInPlace(context) ELSE context
        looked == [Started(query, context) EXCEPT
                     !.gets = 1, !.lookup = cached_response, !.context_after = context1]
        needs_load == model = None
    IN
    IF IsBlankQuery(query)
    THEN /\ call' = [Started(query, context) EXCEPT
                       !.outcome = "ValueError: Query cannot be empty"]
         /\ UNCHANGED <<cacheVars, loaderVars>>
    ELSE IF IsCacheHit(cached_response)
    THEN /\ call' = [looked EXCEPT !.outcome = "returned", !.result = cached_response]
         /\ UNCHANGED <<cacheVars, loaderVars>>
    ELSE \E load \in IF needs_load THEN LoadOutcomes(api_mode) ELSE {"skipped"} :
         LET tok1 == IF needs_load THEN TokenizerAfterLoad(tokenizer, load) ELSE tokenizer
             mdl1 == IF needs_load THEN ModelAfterLoad(api_mode, model, load) ELSE model
             loaded == [looked EXCEPT !.loads = IF needs_load THEN 1 ELSE 0,
                                      !.load = load]
         IN
         /\ tokenizer' = tok1
         /\ model' = mdl1
         /\ UNCHANGED api_mode
         /\ IF needs_load /\ ~LoadModelResult(load)
            THEN /\ call' = [loaded EXCEPT
                               !.outcome = "ValueError: Failed to load AI model"]
                 /\ UNCHANGED cacheVars
            ELSE \E retrieval \in IF Truthy(context1) THEN {"skipped"}
                                  ELSE RetrievalOutcomes :
                 LET rc == RetrieveContext(context1, retrieval)
                     retrieved == [loaded EXCEPT
                                     !.retrievals = IF rc.called THEN 1 ELSE 0,
                                     !.retrieval = retrieval]
                 IN
                 IF rc.raised
                 THEN /\ call' = [retrieved EXCEPT !.outcome = "Exception: retrieval"]
                      /\ UNCHANGED cacheVars
                 ELSE \E gen \in GenOutcomes(api_mode) :
                      LET prompt == FormatTaxPrompt(processed_query, rc.context)
                          g == GenerateResponse(api_mode, tok1, mdl1, gen)
                          generated == [retrieved EXCEPT
                                          !.generations = 1, !.generation = gen,
                                          !.prompt = prompt]
                      IN
                      IF g.raised
                      THEN /\ call' = [generated EXCEPT !.outcome =
                                         "Exception: Failed to generate AI response"]
                           /\ UNCHANGED cacheVars
                      ELSE LET response == CompleteResponse(g.text)
                               citations == ExtractCitations(response)
                               confidence_score ==
                                   CalculateConfidenceScore(response, citations, rc.context)
                               result == MakeResult(query, response, citations,
                                                    confidence_score, now - start_time)
                           IN
                           /\ call' = [generated EXCEPT !.outcome = "returned",
                                                        !.result = result, !.sets = 1]
                           /\ memory_cache' = MemoryAfterSet(processed_query, result,
                                                             cache_key_context)
                           /\ redis' = RedisAfterSet(processed_query, result,
                                                     cache_key_context, None)
                           /\ set_log' = LogAfterSet(processed_query,
                                                     cache_key_context, None)
                           /\ UNCHANGED <<use_redis, cache_ttl, now>>

\* the calls made: (query, context) arguments
CallInputs ==
    {[query |-> <<>>, context |-> None],
     [query |-> <<" ">>, context |-> None],
     [query |-> Tax, context |-> None],
     [query |-> <<"t", "a", "x", " ">>, context |-> None],
     [query |-> Tax, context |-> PyList(<<<<"b">>, <<"a">>>>)],
     [query |-> dog, context |-> None]}

\* module import: the singleton query_cache (in-memory unless
\* USE_REDIS_CACHE is set) and the singleton model_loader, nothing loaded
Init ==
    /\ use_redis = FALSE
    /\ cache_ttl = DefaultTtl
    /\ memory_cache = EmptyMap
    /\ redis = EmptyMap
    /\ set_log = EmptyMap
    /\ now = 0
    /\ api_mode \in BOOLEAN
    /\ model = None
    /\ tokenizer = None
    /\ call = IdleCall
    /\ kin = IdleKey
    /\ kout = IdleKey
    /\ cd = IdleChunk
    /\ IngestIdle

Next ==
    \E in \in CallInputs :
        ProcessTaxQuery(in.query, in.context) /\ UNCHANGED <<keyVars, cd, ingestVars>>

Spec == Init /\ [][Next]_vars

----------------------------------------------------------------------------
(* Properties of process_tax_query (Spec) *)

IsQueryCall == call.op = "process_tax_query"

\* the fields in which every answer carries its content
AnswerFields == {"query", "response", "citations", "confidence_score", "response_time"}

\* a structured record was returned
ReturnedRecord == call.outcome = "returned" /\ AnswerFields \subseteq DOMAIN call.result

\* a string that is empty or consists of whitespace only
OnlyWhitespace(q) == \A i \in 1..Len(q) : q[i] \in Whitespace

\* the backend failed on the generation request of the last call: an HTTP
\* error, an exception, or an output that is empty or shorter than 20
BackendFailed ==
    /\ IsQueryCall
    /\ call.generations = 1
    /\ \/ call.generation.kind \in {"http_error", "exception"}
       \/ /\ call.generation.kind = "text"
          /\ (call.generation.text.len = 0 \/ call.generation.text.stripped_len < 20)

\* C1: a record returned after a failed generation carries a field, beyond
\* the content fields of a normal answer, that marks it.
C1_FailureIsFlagged ==
    (BackendFailed /\ call.outcome = "returned")
    => \E f \in DOMAIN call.result : f \notin AnswerFields

GenerationRaised ==
    call.generations = 1 /\ ~api_mode /\ call.generation.kind = "exception"

RetrievalDegraded ==
    /\ IsQueryCall
    /\ call.retrievals = 1
    /\ (call.retrieval.kind = "raise" \/ call.retrieval.refs = <<>>)

C9_QueryEchoed ==
    (IsQueryCall /\ call.outcome = "returned") => call.result.query = call.query

----------------------------------------------------------------------------
(* Specifications of the ingestion and retrieval components.  Each of them *)
(* uses one variable of ingestVars; the query pipeline stays idle.         *)

PipelineIdle ==
    /\ use_redis = FALSE
    /\ cache_ttl = 1
    /\ memory_cache = EmptyMap
    /\ redis = EmptyMap
    /\ set_log = EmptyMap
    /\ now = 0
    /\ api_mode = TRUE
    /\ model = None
    /\ tokenizer = None
    /\ call = IdleCall
    /\ kin = IdleKey
    /\ kout = IdleKey
    /\ cd = IdleChunk

pipelineVars == <<cacheVars, loaderVars, call, keyVars, cd>>

\* c repeated n times
Rep(c, n) == [i \in 1..n |-> c]

RECURSIVE Concat(_)
Concat(l) == IF l = <<>> THEN <<>> ELSE Head(l) \o Concat(Tail(l))

----------------------------------------------------------------------------
(* src/document_processing/document_chunker.py : TaxDocumentChunker        *)
(* (specification SpecBySize: one step per iteration of the generator's    *)
(* while loop, then the for loop of _chunk_by_size)                        *)

\* text.rfind(sub, lo, hi): the highest index in the slice where sub starts,
\* -1 when there is none
RFind(text, sub, lo, hi) ==
    LET l == SliceIndex(lo, Len(text))
        h == SliceIndex(hi, Len(text))
        found == {i \in l..(h - Len(sub)) : SubSeq(text, i + 1, i + Len(sub)) = sub}
    IN IF found = {} THEN -1 ELSE CHOOSE i \in found : \A j \in found : j <= i

ParagraphBreak == <<"\n", "\n">>
SentencePatterns ==
    {<<".", " ">>, <<"?", " ">>, <<"!", " ">>, <<".", "\n">>, <<"?", "\n">>, <<"!", "\n">>}

\* max of the rfind results over the six patterns (-1 when none is found)
SentenceBreak(text, lo, hi) ==
    LET found == {RFind(text, pattern, lo, hi) : pattern \in SentencePatterns}
    IN CHOOSE i \in found : \A j \in found : j <= i

\* the position the boundary is moved back to: after a paragraph break, else
\* after a sentence break, when one lies in the later half of the window
AdjustedPosition(text, position, chunk_size) ==
    LET end_boundary == Min(position, Len(text))
        paragraph_break == RFind(text, ParagraphBreak, position - chunk_size, end_boundary)
        sentence_break == SentenceBreak(text, position - chunk_size, end_boundary)
    IN IF paragraph_break # -1 /\ (end_boundary - paragraph_break) < chunk_size \div 2
       THEN paragraph_break + 2
       ELSE IF sentence_break # -1 /\ (end_boundary - sentence_break) < chunk_size \div 2
       THEN sentence_break + 2
       ELSE position

\* one chunk dictionary of _chunk_by_size
SizedChunk(text, chunk_starts, chunk_size, i) ==
    LET start_idx == chunk_starts[i + 1]
        end_idx == IF i = Len(chunk_starts) - 1 THEN Len(text) ELSE start_idx + chunk_size
    IN [text |-> Strip(Slice(text, start_idx, end_idx)),
        chunk_index |-> i, start_char |-> start_idx, end_char |-> end_idx]

\* the for loop of _chunk_by_size: the non-empty stripped chunks, in order
RECURSIVE SizedChunksFrom(_, _, _, _)
SizedChunksFrom(text, chunk_starts, chunk_size, i) ==
    IF i >= Len(chunk_starts) THEN <<>>
    ELSE LET chunk == SizedChunk(text, chunk_starts, chunk_size, i)
             rest == SizedChunksFrom(text, chunk_starts, chunk_size, i + 1)
         IN IF chunk.text = <<>> THEN rest ELSE <<chunk>> \o rest

SampleSentences == Rep("a", 5) \o <<".", " ">> \o Rep("a", 4)
SampleParagraphs == Rep("a", 5) \o <<"\n", "\n">> \o Rep("a", 3)
SampleWindow == 8

BySizeTexts == StringsUpTo(MaxDocLen) \cup {SampleSentences, SampleParagraphs}

InitBySize ==
    /\ bs \in [pc : {"boundaries"}, text : BySizeTexts,
                chunk_size : (1..MaxChunkSize) \cup {SampleWindow},
                chunk_overlap : 0..MaxChunkSize]
    /\ PipelineIdle
    /\ ApiIdle
    /\ rch = Idle /\ pp = Idle /\ kb = Idle /\ rag = Idle
    /\ cs = Idle /\ ba = Idle /\ rt = Idle

\* `yield 0` and `position = chunk_size`
BoundariesStart ==
    /\ bs.pc = "boundaries"
    /\ bs' = [pc |-> "loop", text |-> bs.text, chunk_size |-> bs.chunk_size,
              chunk_overlap |-> bs.chunk_overlap,
              position |-> bs.chunk_size, chunk_starts |-> <<0>>]
    /\ UNCHANGED <<pipelineVars, apiVars, rch, pp, kb, rag, cs, ba, rt>>

\* one iteration of `while position < text_len`
BoundariesIteration ==
    /\ bs.pc = "loop"
    /\ bs.position < Len(bs.text)
    /\ Len(bs.chunk_starts) < Len(bs.text) + MaxIter
    /\ LET position == AdjustedPosition(bs.text, bs.position, bs.chunk_size) IN
       bs' = [bs EXCEPT !.chunk_starts = Append(@, position - bs.chunk_overlap),
                        !.position = position + bs.chunk_size - bs.chunk_overlap]
    /\ UNCHANGED <<pipelineVars, apiVars, rch, pp, kb, rag, cs, ba, rt>>

\* the generator is exhausted: the chunks are built and returned
ChunkBySizeReturn ==
    /\ bs.pc = "loop"
    /\ ~(bs.position < Len(bs.text))
    /\ bs' = [pc |-> "done", text |-> bs.text, chunk_size |-> bs.chunk_size,
              chunk_overlap |-> bs.chunk_overlap, chunk_starts |-> bs.chunk_starts,
              chunks |-> SizedChunksFrom(bs.text, bs.chunk_starts, bs.chunk_size, 0)]
    /\ UNCHANGED <<pipelineVars, apiVars, rch, pp, kb, rag, cs, ba, rt>>

NextBySize == BoundariesStart \/ BoundariesIteration \/ ChunkBySizeReturn

SpecBySize == InitBySize /\ [][NextBySize]_vars

\* the first chunk followed by every later chunk without its first n characters
Reconstructed(chunks, n) ==
    IF chunks = <<>> THEN <<>>
    ELSE chunks[1].text
         \o Concat([i \in 1..(Len(chunks) - 1) |->
                       Slice(chunks[i + 1].text, n, Len(chunks[i + 1].text))])

\* the last n characters of each chunk are the first n of the next one
SharesOverlap(chunks, n) ==
    \A i \in 1..(Len(chunks) - 1) :
        /\ Len(chunks[i].text) >= n
        /\ Len(chunks[i + 1].text) >= n
        /\ Slice(chunks[i].text, Len(chunks[i].text) - n, Len(chunks[i].text))
             = Slice(chunks[i + 1].text, 0, n)

\* C11: for 0 <= chunk_overlap < chunk_size the chunks returned by
\* _chunk_by_size overlap by exactly chunk_overlap characters, and the first
\* chunk followed by the later chunks without their first chunk_overlap
\* characters is the original text.
C11_OverlapReconstructs ==
    (bs.pc = "done" /\ 0 <= bs.chunk_overlap /\ bs.chunk_overlap < bs.chunk_size)
    => /\ SharesOverlap(bs.chunks, bs.chunk_overlap)
       /\ Reconstructed(bs.chunks, bs.chunk_overlap) = bs.text

----------------------------------------------------------------------------
(* rag/preprocessing.py : clean_text, chunk_document                       *)
(* (specification SpecRagChunk: the call is one step)                      *)

LowerLetters ==
    {"a", "b", "c", "d", "e", "f", "g", "h", "i", "j", "k", "l", "m",
     "n", "o", "p", "q", "r", "s", "t", "u", "v", "w", "x", "y", "z"}
UpperLetters ==
    {"A", "B", "C", "D", "E", "F", "G", "H", "I", "J", "K", "L", "M",
     "N", "O", "P", "Q", "R", "S", "T", "U", "V", "W", "X", "Y", "Z"}
Digits == {"0", "1", "2", "3", "4", "5", "6", "7", "8", "9"}

\* \w of the re module
WordChars == LowerLetters \cup UpperLetters \cup Digits \cup {"_"}

\* the characters that the class [^\w\s.,;:()\-\xa7&%$] does not match
\* ("U+00A7" is the section sign)
KeptChars ==
    WordChars \cup Whitespace \cup {".", ",", ";", ":", "(", ")", "-", "U+00A7", "&", "%", "$"}

\* clean_text: whitespace runs become one space, the ends are stripped, then
\* the other characters are removed
CleanText(text) ==
    SelectSeq(Strip(CollapseSpaces(text)), LAMBDA c : c \in KeptChars)

\* nltk.sent_tokenize on cleaned text: a sentence ends after a token that
\* ends with a period and is followed by a space; the space belongs to no
\* sentence
RECURSIVE SentTokenizeFrom(_, _)
SentTokenizeFrom(text, i) ==
    IF text = <<>> THEN <<>>
    ELSE IF i >= Len(text) THEN <<text>>
    ELSE IF text[i] = "." /\ text[i + 1] = " "
         THEN <<SubSeq(text, 1, i)>> \o SentTokenizeFrom(LStrip(SubSeq(text, i + 1, Len(text))), 1)
         ELSE SentTokenizeFrom(text, i + 1)

SentTokenize(text) == SentTokenizeFrom(text, 1)

\* the current chunk after it has been appended: the overlap it leaves
OverlapStart(current_chunk, overlap) ==
    IF overlap > 0 /\ Len(current_chunk) > overlap
    THEN LET overlap_text == Slice(current_chunk, 0 - overlap, Len(current_chunk))
             last_space == RFind(overlap_text, <<" ">>, 0, Len(overlap_text))
         IN IF last_space # -1
            THEN Slice(current_chunk, 0 - (overlap - last_space), Len(current_chunk)) \o <<" ">>
            ELSE <<>>
    ELSE <<>>

\* the for loop over the sentences and the final append: the chunks
RECURSIVE ChunkSentences(_, _, _, _, _)
ChunkSentences(sentences, chunks, current_chunk, max_chunk_size, overlap) ==
    IF sentences = <<>>
    THEN IF current_chunk # <<>> THEN Append(chunks, current_chunk) ELSE chunks
    ELSE LET sentence == Head(sentences)
             exceeds == Len(current_chunk) + Len(sentence) > max_chunk_size
             chunks1 == IF exceeds THEN Append(chunks, current_chunk) ELSE chunks
             current1 == IF exceeds THEN OverlapStart(current_chunk, overlap)
                         ELSE current_chunk
         IN ChunkSentences(Tail(sentences), chunks1, current1 \o sentence \o <<" ">>,
                           max_chunk_size, overlap)

\* chunk_document(text, max_chunk_size, overlap)
RagChunkDocument(text, max_chunk_size, overlap) ==
    LET cleaned == CleanText(text) IN
    IF Len(cleaned) <= max_chunk_size THEN <<cleaned>>
    ELSE ChunkSentences(SentTokenize(cleaned), <<>>, <<>>, max_chunk_size, overlap)

SampleRaw == <<"a", "?", "\t", "\n", "a", ".", " ", " ", "a", "!">>

RagTexts == StringsUpTo(MaxDocLen) \cup {SampleRaw}

InitRagChunk ==
    /\ rch \in [pc : {"ready"}, text : RagTexts,
                 max_chunk_size : 1..MaxChunkSize, overlap : 0..MaxChunkSize]
    /\ PipelineIdle
    /\ ApiIdle
    /\ bs = Idle /\ pp = Idle /\ kb = Idle /\ rag = Idle
    /\ cs = Idle /\ ba = Idle /\ rt = Idle

ChunkDocumentCall ==
    /\ rch.pc = "ready"
    /\ rch' = [pc |-> "done", text |-> rch.text,
               max_chunk_size |-> rch.max_chunk_size, overlap |-> rch.overlap,
               chunks |-> RagChunkDocument(rch.text, rch.max_chunk_size, rch.overlap)]
    /\ UNCHANGED <<pipelineVars, apiVars, bs, pp, kb, rag, cs, ba, rt>>

NextRagChunk == ChunkDocumentCall

SpecRagChunk == InitRagChunk /\ [][NextRagChunk]_vars

\* C12: every chunk returned by chunk_document except the last one is at most
\* max_chunk_size characters long.
C12_ChunksWithinMax ==
    rch.pc = "done"
    => \A i \in 1..(Len(rch.chunks) - 1) : Len(rch.chunks[i]) <= rch.max_chunk_size

----------------------------------------------------------------------------
(* The part of the re module that the preprocessor uses.  A pattern is a   *)
(* sequence of elements (a character class with a repetition range); an    *)
(* alternation is a sequence of patterns, tried in order.  Repetitions are *)
(* greedy and give characters back, as in re.                              *)

One(cls) == [cls |-> cls, min |-> 1, max |-> 1]
Opt(cls) == [cls |-> cls, min |-> 0, max |-> 1]
Star(cls) == [cls |-> cls, min |-> 0, max |-> -1]
Plus(cls) == [cls |-> cls, min |-> 1, max |-> -1]
AtLeast(n, cls) == [cls |-> cls, min |-> n, max |-> -1]

\* the literal characters of a string, one element each
Literal(chars) == [i \in 1..Len(chars) |-> One({chars[i]})]

LowerSeq ==
    <<"a", "b", "c", "d", "e", "f", "g", "h", "i", "j", "k", "l", "m",
      "n", "o", "p", "q", "r", "s", "t", "u", "v", "w", "x", "y", "z">>
UpperSeq ==
    <<"A", "B", "C", "D", "E", "F", "G", "H", "I", "J", "K", "L", "M",
      "N", "O", "P", "Q", "R", "S", "T", "U", "V", "W", "X", "Y", "Z">>

\* flags=re.IGNORECASE: a character matches in either case
BothCases(c) ==
    {c} \cup {LowerSeq[i] : i \in {j \in 1..26 : UpperSeq[j] = c}}
        \cup {UpperSeq[i] : i \in {j \in 1..26 : LowerSeq[j] = c}}
AnyCase(cls) == UNION {BothCases(c) : c \in cls}
LiteralAnyCase(chars) == [i \in 1..Len(chars) |-> One(BothCases(chars[i]))]

NoMatch == <<-1>>

\* how many characters from position i on (0-based) the element can take
RunLength(e, s, i) ==
    LET most == IF e.max = -1 THEN Len(s) - i ELSE Min(e.max, Len(s) - i)
        runs == {n \in 0..most : \A j \in 1..n : s[i + j] \in e.cls}
    IN CHOOSE n \in runs : \A m \in runs : m <= n

\* the end position of every element from the k-th on, for the match of
\* pat[k..] at position i that re finds first; NoMatch when there is none
RECURSIVE MatchFrom(_, _, _, _)
RECURSIVE TryCount(_, _, _, _, _)
MatchFrom(pat, k, s, i) ==
    IF k > Len(pat) THEN <<>>
    ELSE LET run == RunLength(pat[k], s, i)
         IN IF run < pat[k].min THEN NoMatch ELSE TryCount(pat, k, s, i, run)

TryCount(pat, k, s, i, n) ==
    LET rest == MatchFrom(pat, k + 1, s, i + n)
    IN IF rest # NoMatch THEN <<i + n>> \o rest
       ELSE IF n > pat[k].min THEN TryCount(pat, k, s, i, n - 1)
       ELSE NoMatch

\* the first alternative (index) that matches at position i, 0 when none does
FirstAlternative(alts, s, i) ==
    LET matching == {a \in 1..Len(alts) : MatchFrom(alts[a].pat, 1, s, i) # NoMatch}
    IN IF matching = {} THEN 0 ELSE CHOOSE a \in matching : \A b \in matching : a <= b

Lit(chars) == [lit |-> chars]
Group(first, last) == [first |-> first, last |-> last]

\* the replacement template expanded for a match at i with element ends `ends`
RECURSIVE Expand(_, _, _, _)
Expand(repl, s, i, ends) ==
    IF repl = <<>> THEN <<>>
    ELSE LET part == Head(repl)
             text == IF "lit" \in DOMAIN part THEN part.lit
                     ELSE SubSeq(s, (IF part.first = 1 THEN i ELSE ends[part.first - 1]) + 1,
                                 ends[part.last])
         IN text \o Expand(Tail(repl), s, i, ends)

\* re.sub(pattern, repl, s): leftmost non-overlapping matches, left to right
RECURSIVE ReSubFrom(_, _, _)
ReSubFrom(alts, s, i) ==
    IF i >= Len(s) THEN <<>>
    ELSE LET a == FirstAlternative(alts, s, i)
         IN IF a = 0 THEN <<s[i + 1]>> \o ReSubFrom(alts, s, i + 1)
            ELSE LET ends == MatchFrom(alts[a].pat, 1, s, i)
                 IN Expand(alts[a].repl, s, i, ends) \o ReSubFrom(alts, s, ends[Len(ends)])

ReSub(alts, s) == ReSubFrom(alts, s, 0)

\* a pattern without alternation
Rule(pat, repl) == <<[pat |-> pat, repl |-> repl]>>

----------------------------------------------------------------------------
(* knowledge_base/src/preprocessor.py : TaxDocumentPreprocessor            *)
(* (specification SpecPreprocess: preprocess applied once, then again)     *)

\* remove_excessive_whitespace
RemoveExcessiveWhitespace(text) ==
    LET spaces == Rule(<<Plus({" "})>>, <<Lit(<<" ">>)>>)
        newlines == Rule(<<AtLeast(3, {"\n"})>>, <<Lit(<<"\n", "\n">>)>>)
        line_starts == Rule(<<One({"\n"}), Plus({" "})>>, <<Lit(<<"\n">>)>>)
    IN Strip(ReSub(line_starts, ReSub(newlines, ReSub(spaces, text))))

\* the replacements dictionary of fix_ocr_errors, in insertion order
OcrReplacements ==
    <<Rule(LiteralAnyCase(<<"I", " ", "R", "S">>), <<Lit(<<"I", "R", "S">>)>>),
      Rule(LiteralAnyCase(<<"S", "e", "c", "t">>) \o <<Star(Whitespace), One(AnyCase({"i", "1"}))>>
               \o LiteralAnyCase(<<"o", "n">>),
           <<Lit(<<"S", "e", "c", "t", "i", "o", "n">>)>>),
      Rule(<<One(AnyCase({"0", "O"}))>> \o LiteralAnyCase(<<"r", "d">>)
               \o <<One(AnyCase({"i", "1"}))>> \o LiteralAnyCase(<<"n", "a", "r", "y">>),
           <<Lit(<<"O", "r", "d", "i", "n", "a", "r", "y">>)>>),
      Rule(<<One(AnyCase({"i", "1"}))>> \o LiteralAnyCase(<<"n", "c", "o", "m", "e">>), <<Lit(<<"i", "n", "c", "o", "m", "e">>)>>),
      Rule(LiteralAnyCase(<<"d">>) \o <<One(AnyCase({"e", "3"}))>> \o LiteralAnyCase(<<"d", "u", "c", "t">>)
               \o <<One(AnyCase({"i", "1"}))>> \o LiteralAnyCase(<<"o", "n">>),
           <<Lit(<<"d", "e", "d", "u", "c", "t", "i", "o", "n">>)>>),
      Rule(LiteralAnyCase(<<"c", "r">>) \o <<One(AnyCase({"e", "3"}))>> \o LiteralAnyCase(<<"d">>)
               \o <<One(AnyCase({"i", "1"}))>> \o LiteralAnyCase(<<"t">>),
           <<Lit(<<"c", "r", "e", "d", "i", "t">>)>>),
      Rule(LiteralAnyCase(<<"t">>) \o <<One(AnyCase({"a", "4"}))>> \o LiteralAnyCase(<<"x">>)
               \o <<One(AnyCase({"a", "4"}))>> \o LiteralAnyCase(<<"b", "l", "e">>),
           <<Lit(<<"t", "a", "x", "a", "b", "l", "e">>)>>),
      Rule(LiteralAnyCase(<<"r">>) \o <<One(AnyCase({"e", "3"}))>> \o LiteralAnyCase(<<"g", "u", "l">>)
               \o <<One(AnyCase({"a", "4"}))>> \o LiteralAnyCase(<<"t">>)
               \o <<One(AnyCase({"i", "1"})), One(AnyCase({"o", "0"}))>> \o LiteralAnyCase(<<"n">>),
           <<Lit(<<"r", "e", "g", "u", "l", "a", "t", "i", "o", "n">>)>>)>>

\* `for pattern, replacement in replacements.items(): text = re.sub(...)`
RECURSIVE ApplyAll(_, _)
ApplyAll(rules, text) ==
    IF rules = <<>> THEN text ELSE ApplyAll(Tail(rules), ReSub(Head(rules), text))

\* fix_ocr_errors
FixOcrErrors(text) == ApplyAll(OcrReplacements, text)

\* (IRC|I\.R\.C\.)(\s+|\s*<U+0E22><U+0E07>\s*|\s*Sec\.?\s+)(\d+), the
\* alternatives written out in the order re tries them; the source file
\* holds the two characters U+0E22 U+0E07 where a section sign was meant
IrcReference ==
    LET heads == <<Literal(<<"I", "R", "C">>), Literal(<<"I", ".", "R", ".", "C", ".">>)>>
        middles == <<<<Plus(Whitespace)>>,
                     <<Star(Whitespace), One({"U+0E22"}), One({"U+0E07"}), Star(Whitespace)>>,
                     <<Star(Whitespace)>> \o Literal(<<"S", "e", "c">>)
                         \o <<Opt({"."}), Plus(Whitespace)>>>>
        alternative(h, m) ==
            LET pat == heads[h] \o middles[m] \o <<Plus(Digits)>>
            IN [pat |-> pat, repl |-> <<Lit(<<"I", "R", "C", " ", "S", "e", "c", "t", "i", "o", "n", " ">>), Group(Len(pat), Len(pat))>>]
    IN <<alternative(1, 1), alternative(1, 2), alternative(1, 3),
         alternative(2, 1), alternative(2, 2), alternative(2, 3)>>

\* Treas\.?\s*Reg\.?\s*(\d+\.\d+\-\d+)
TreasuryReference ==
    LET pat == Literal(<<"T", "r", "e", "a", "s">>) \o <<Opt({"."}), Star(Whitespace)>> \o Literal(<<"R", "e", "g">>)
                 \o <<Opt({"."}), Star(Whitespace),
                      Plus(Digits), One({"."}), Plus(Digits), One({"-"}), Plus(Digits)>>
    IN Rule(pat, <<Lit(<<"T", "r", "e", "a", "s", "u", "r", "y", " ", "R", "e", "g", "u", "l", "a", "t", "i", "o", "n", " ">>), Group(Len(pat) - 4, Len(pat))>>)

\* normalize_section_references
NormalizeSectionReferences(text) == ReSub(TreasuryReference, ReSub(IrcReference, text))

\* fix_paragraph_breaks: ([a-z])\s*\n\s*([A-Z]) -> \1. \2, then \.([A-Z]) -> . \1
FixParagraphBreaks(text) ==
    LET line_break == Rule(<<One(LowerLetters), Star(Whitespace), One({"\n"}),
                             Star(Whitespace), One(UpperLetters)>>,
                           <<Group(1, 1), Lit(<<".", " ">>), Group(5, 5)>>)
        period == Rule(<<One({"."}), One(UpperLetters)>>,
                       <<Lit(<<".", " ">>), Group(2, 2)>>)
    IN ReSub(period, ReSub(line_break, text))

\* preprocess
Preprocess(text) ==
    FixParagraphBreaks(NormalizeSectionReferences(FixOcrErrors(
        RemoveExcessiveWhitespace(text))))

MaxPreLen == 6
PreChars == {"a", "\n", " "}

RECURSIVE PreStringsUpTo(_)
PreStringsUpTo(n) ==
    IF n = 0 THEN {<<>>}
    ELSE LET shorter == PreStringsUpTo(n - 1) IN
         shorter \cup {Append(s, c) : s \in {t \in shorter : Len(t) = n - 1}, c \in PreChars}

\* texts that the OCR, reference and paragraph rules apply to
PreSamples ==
    {<<"I", " ", "R", "S">>,
     <<"S", "e", "c", "t", " ", "1", "o", "n">>,
     <<"0", "r", "d", "1", "n", "a", "r", "y">>,
     <<"1", "n", "c", "o", "m", "e">>,
     <<"d", "3", "d", "u", "c", "t", "1", "o", "n">>,
     <<"c", "r", "3", "d", "1", "t">>,
     <<"t", "4", "x", "4", "b", "l", "e">>,
     <<"r", "3", "g", "u", "l", "4", "t", "1", "0", "n">>,
     <<"I", "R", "C", " ", "S", "e", "c", ".", " ", "1", "2">>,
     <<"I", ".", "R", ".", "C", ".", " ", "1", "2">>,
     <<"T", "r", "e", "a", "s", ".", " ", "R", "e", "g", ".", " ", "1", ".", "2", "-", "3">>,
     <<"a", " ", "\n", " ", "B">>,
     <<"a", ".", "B">>}

PreTexts == PreStringsUpTo(MaxPreLen) \cup PreSamples

InitPreprocess ==
    /\ pp \in [pc : {"raw"}, text : PreTexts]
    /\ PipelineIdle
    /\ ApiIdle
    /\ bs = Idle /\ rch = Idle /\ kb = Idle /\ rag = Idle
    /\ cs = Idle /\ ba = Idle /\ rt = Idle

\* y = preprocess(x)
PreprocessOnce ==
    /\ pp.pc = "raw"
    /\ pp' = [pc |-> "once", text |-> pp.text, once |-> Preprocess(pp.text)]
    /\ UNCHANGED <<pipelineVars, apiVars, bs, rch, kb, rag, cs, ba, rt>>

\* z = preprocess(y)
PreprocessAgain ==
    /\ pp.pc = "once"
    /\ pp' = [pc |-> "twice", text |-> pp.text, once |-> pp.once,
              twice |-> Preprocess(pp.once)]
    /\ UNCHANGED <<pipelineVars, apiVars, bs, rch, kb, rag, cs, ba, rt>>

NextPreprocess == PreprocessOnce \/ PreprocessAgain

SpecPreprocess == InitPreprocess /\ [][NextPreprocess]_vars

\* C13: preprocess(preprocess(x)) = preprocess(x) for every text x.
C13_Idempotent == pp.pc = "twice" => pp.twice = pp.once

----------------------------------------------------------------------------
(* knowledge_base/src/vector_store.py : TaxLawVectorStore                  *)
(* (specification SpecKbStore).  The ChromaDB collection is a function     *)
(* from chunk ids to [document, metadata].                                 *)

DigitSeq == <<"0", "1", "2", "3", "4", "5", "6", "7", "8", "9">>

\* str(n) for n >= 0
RECURSIVE IntStr(_)
IntStr(n) ==
    IF n < 10 THEN <<DigitSeq[n + 1]>>
    ELSE IntStr(n \div 10) \o <<DigitSeq[(n % 10) + 1]>>

\* f"{document_id}_chunk_{i}"
KbChunkId(document_id, i) ==
    document_id \o <<"_", "c", "h", "u", "n", "k", "_">> \o IntStr(i)

\* EmbeddingGenerator.chunk_document as a function: the while loop from
\* `start` on.  The loop's only state is `start`, so it returns unless a
\* value of `start` comes back.
RECURSIVE ChunkLoop(_, _, _, _, _)
ChunkLoop(document, start, chunk_size, overlap, seen) ==
    IF ~(start < Len(document)) THEN [returns |-> TRUE, chunks |-> <<>>]
    ELSE IF start \in seen THEN [returns |-> FALSE, chunks |-> <<>>]
    ELSE LET end == ChunkEnd(document, start, chunk_size)
             rest == ChunkLoop(document, NextStart(end, overlap), chunk_size, overlap,
                               seen \cup {start})
         IN [returns |-> rest.returns,
             chunks |-> <<Slice(document, start, end)>> \o rest.chunks]

ChunkDocumentResult(document, chunk_size, overlap) ==
    ChunkLoop(document, 0, chunk_size, overlap, {})

\* the ids and the records that add_document hands to collection.add
KbChunkRecords(document_id, chunks) ==
    [id \in {KbChunkId(document_id, i) : i \in 0..(Len(chunks) - 1)} |->
        LET i == CHOOSE j \in 0..(Len(chunks) - 1) : KbChunkId(document_id, j) = id
        IN [document |-> chunks[i + 1],
            metadata |-> [document_id |-> document_id, chunk_index |-> i,
                          chunk_total |-> Len(chunks)]]]

\* collection.add that succeeds: the records whose id is not in the
\* collection yet are inserted, records with an existing id are ignored
CollectionAdd(collection, records) ==
    [id \in DOMAIN collection \cup DOMAIN records |->
        IF id \in DOMAIN collection THEN collection[id] ELSE records[id]]

\* the outcomes of collection.add: it raises for an empty id list, and may
\* raise for existing ids, for metadata values it rejects or on a storage
\* error; otherwise it inserts
AddOutcomes(collection, records) ==
    IF DOMAIN records = {} THEN {"raised"} ELSE {"ok", "raised"}

\* (variant: only the record whose id is the document id is deleted)
CollectionDeleteId(collection, document_id) ==
    [id \in DOMAIN collection \ {document_id} |-> collection[id]]

\* collection.delete(where={"document_id": document_id})
CollectionDeleteWhere(collection, document_id) ==
    [id \in {i \in DOMAIN collection : collection[i].metadata.document_id # document_id} |->
        collection[id]]

\* collection.get(where={"document_id": document_id})["ids"]
CollectionGetWhere(collection, document_id) ==
    {id \in DOMAIN collection : collection[id].metadata.document_id = document_id}

\* collection.count()
Count(collection) == Cardinality(DOMAIN collection)

doc_a == <<"a">>
doc_b == <<"b">>
KbDocIds == {doc_a, doc_b}
KbTexts == {<<>>, <<"a">>, <<"a", "a", "a">>}
KbChunkSize == 2
KbOverlaps == {0, 1}

\* history: the documents added since the count was last taken and not yet
\* deleted; all_new tells whether none of them had chunks before it was added
NoRound == [open |-> FALSE, completed |-> FALSE]

RoundAfterAdd(round, collection, document_id) ==
    LET had_chunks == CollectionGetWhere(collection, document_id) # {}
    IN IF round.open
       THEN [round EXCEPT !.pending = @ \cup {document_id},
                          !.all_new = @ /\ (document_id \in round.pending \/ ~had_chunks)]
       ELSE [open |-> TRUE, completed |-> FALSE, count_before |-> Count(collection),
             pending |-> {document_id}, all_new |-> ~had_chunks]

RoundAfterDelete(round, document_id) ==
    IF round.open /\ document_id \in round.pending
    THEN IF round.pending = {document_id}
         THEN [open |-> FALSE, completed |-> TRUE, count_before |-> round.count_before,
               all_new |-> round.all_new]
         ELSE [round EXCEPT !.pending = @ \ {document_id}]
    ELSE NoRound

InitKbStore ==
    /\ kb = [collection |-> EmptyMap, last |-> [op |-> "init"], round |-> NoRound]
    /\ PipelineIdle
    /\ ApiIdle
    /\ bs = Idle /\ rch = Idle /\ pp = Idle /\ rag = Idle
    /\ cs = Idle /\ ba = Idle /\ rt = Idle

\* add_document(document_id, text, metadata, chunk_size, chunk_overlap)
KbAddDocument(document_id, text, chunk_size, chunk_overlap) ==
    LET chunked == ChunkDocumentResult(text, chunk_size, chunk_overlap)
        \* history: the number of chunks the store held for the document
        stored_before == Cardinality(CollectionGetWhere(kb.collection, document_id))
    IN
    /\ IF ~chunked.returns
       THEN kb' = [kb EXCEPT !.last = [op |-> "add_document", document_id |-> document_id,
                                        outcome |-> "no_return"],
                             !.round = NoRound]
       ELSE LET records == KbChunkRecords(document_id, chunked.chunks) IN
            \E outcome \in AddOutcomes(kb.collection, records) :
                IF outcome = "raised"
                THEN kb' = [kb EXCEPT !.last = [op |-> "add_document",
                                                 document_id |-> document_id,
                                                 outcome |-> "raised",
                                                 chunks |-> chunked.chunks,
                                                 stored_before |-> stored_before],
                                      !.round = NoRound]
                ELSE kb' = [collection |-> CollectionAdd(kb.collection, records),
                            last |-> [op |-> "add_document", document_id |-> document_id,
                                      outcome |-> "returned",
                                      chunk_ids |-> DOMAIN records,
                                      chunks |-> chunked.chunks,
                                      stored_before |-> stored_before],
                            round |-> RoundAfterAdd(kb.round, kb.collection, document_id)]
    /\ UNCHANGED <<pipelineVars, apiVars, bs, rch, pp, rag, cs, ba, rt>>

\* delete_document(document_id)
KbDeleteDocument(document_id) ==
    /\ kb' = [collection |-> CollectionDeleteWhere(kb.collection, document_id),
              last |-> [op |-> "delete_document", document_id |-> document_id],
              round |-> RoundAfterDelete(kb.round, document_id)]
    /\ UNCHANGED <<pipelineVars, apiVars, bs, rch, pp, rag, cs, ba, rt>>

\* get_document(document_id)
KbGetDocument(document_id) ==
    /\ kb' = [kb EXCEPT !.last = [op |-> "get_document", document_id |-> document_id,
                                   ids |-> CollectionGetWhere(kb.collection, document_id)]]
    /\ UNCHANGED <<pipelineVars, apiVars, bs, rch, pp, rag, cs, ba, rt>>

NextKbStore ==
    \/ \E d \in KbDocIds, text \in KbTexts, overlap \in KbOverlaps :
          KbAddDocument(d, text, KbChunkSize, overlap)
    \/ \E d \in KbDocIds : KbDeleteDocument(d)
    \/ \E d \in KbDocIds : KbGetDocument(d)

SpecKbStore == InitKbStore /\ [][NextKbStore]_vars

\* C14: a step of delete_document(d) leaves no chunk whose metadata
\* document_id is d, leaves the chunks of every other document as they were
\* and adds none, changes nothing when d has no chunks, and, when it deletes
\* the last of the documents that were added (documents that had no chunks
\* before they were added), brings the count back to its value before the
\* additions.
C14_DeleteByDocument ==
    [][kb'.last.op = "delete_document" =>
        LET d == kb'.last.document_id IN
        /\ CollectionGetWhere(kb'.collection, d) = {}
        /\ \A id \in DOMAIN kb.collection :
              kb.collection[id].metadata.document_id # d
              => id \in DOMAIN kb'.collection /\ kb'.collection[id] = kb.collection[id]
        /\ DOMAIN kb'.collection \subseteq DOMAIN kb.collection
        /\ (CollectionGetWhere(kb.collection, d) = {} => kb'.collection = kb.collection)
        /\ (kb'.round.completed /\ kb'.round.all_new
            => Count(kb'.collection) = kb'.round.count_before)]_vars

\* a document was added to a store that held another document's chunks, and
\* was deleted again
C14_Witness ==
    /\ kb.last.op = "delete_document"
    /\ kb.round.completed /\ kb.round.all_new
    /\ kb.round.count_before > 0
    /\ Count(kb.collection) = kb.round.count_before

\* C28: after add_document was called again for a stored document id with
\* a text of fewer chunks, get_document for that id returns only chunks of
\* the latest text, each with a chunk_total equal to the number of chunks
\* returned
C28_ReAddReplaces ==
    [][(/\ kb.last.op = "add_document"
        /\ kb.last.outcome \in {"returned", "raised"}
        /\ kb.last.stored_before > Len(kb.last.chunks)
        /\ kb'.last.op = "get_document"
        /\ kb'.last.document_id = kb.last.document_id)
       => LET latest == KbChunkRecords(kb.last.document_id, kb.last.chunks)
              got    == kb'.last.ids
          IN \A id \in got :
                /\ id \in DOMAIN latest
                /\ kb'.collection[id].document = latest[id].document
                /\ kb'.collection[id].metadata.chunk_total = Cardinality(got)]_vars

----------------------------------------------------------------------------
(* rag/rag_system.py : TaxLawRAG, fed by rag/preprocessing.py              *)
(* (specification SpecRag).  A record of the collection keeps, as history, *)
(* the doc_id it was prepared for (`prepared_for`); `distance` is the      *)
(* distance of its embedding from the query's embedding, in tenths.        *)

DefaultMaxChunkSize == 1000
DefaultOverlap == 100

\* f"{doc_id}-chunk-{i}"
RagChunkId(doc_id, i) ==
    doc_id \o <<"-", "c", "h", "u", "n", "k", "-">> \o IntStr(i)

\* prepare_document_for_indexing(doc_id, text, metadata): the indexable
\* chunks (the extracted entities in the metadata are left out)
PrepareDocumentForIndexing(doc_id, text) ==
    LET cleaned_text == CleanText(text)
        chunks == RagChunkDocument(cleaned_text, DefaultMaxChunkSize, DefaultOverlap)
    IN [i \in 1..Len(chunks) |->
          [id |-> RagChunkId(doc_id, i - 1),
           content |-> chunks[i],
           metadata |-> [chunk_id |-> i - 1, total_chunks |-> Len(chunks),
                         is_first_chunk |-> (i = 1), is_last_chunk |-> (i = Len(chunks))]]]

\* the ids, documents and metadatas that index_documents hands to
\* collection.add (a later document with the same id replaces an earlier one
\* in this mapping only; the collection decides about ids it already holds)
RagRecords(documents, embedding, prepared_for) ==
    [id \in {documents[i].id : i \in 1..Len(documents)} |->
        LET i == CHOOSE j \in 1..Len(documents) : documents[j].id = id
        IN [document |-> documents[i].content,
            metadata |-> [chunk_id |-> documents[i].metadata.chunk_id,
                          total_chunks |-> documents[i].metadata.total_chunks,
                          content |-> documents[i].content],
            distance |-> embedding[documents[i].content],
            prepared_for |-> prepared_for]]

\* collection.delete(ids=[doc_id])
CollectionDeleteIds(collection, ids) ==
    [id \in DOMAIN collection \ ids |-> collection[id]]

\* the orders in which collection.query can return the n nearest records:
\* ascending distance, records at the same distance in any order
NearestOrders(collection, n) ==
    LET ids == DOMAIN collection
        k == Min(n, Cardinality(ids))
    IN {order \in [1..k -> ids] :
          /\ \A i, j \in 1..k : i # j => order[i] # order[j]
          /\ \A i, j \in 1..k : i < j => collection[order[i]].distance <= collection[order[j]].distance
          /\ \A id \in ids : (\A i \in 1..k : order[i] # id)
                => \A i \in 1..k : collection[order[i]].distance <= collection[id].distance}

\* the formatted results of search and hybrid_search
FormattedResults(collection, order) ==
    [i \in 1..Len(order) |->
        [id |-> order[i], content |-> collection[order[i]].document,
         metadata |-> collection[order[i]].metadata,
         distance |-> collection[order[i]].distance]]

MaxDistance == 1
RagDocIds == {doc_a, doc_b}
RagTexts2 == {dog, tax_credit}
RagQuery == tax_credit
RagResultCounts == {1, 3}
\* weights in hundredths: the defaults 0.3 / 0.7 and the swapped pair
RagWeights == {[keyword_weight |-> 30, vector_weight |-> 70],
               [keyword_weight |-> 70, vector_weight |-> 30]}

\* __init__: an empty collection; the embedding model maps every text to a
\* vector, of which the model keeps the distance from the query's vector
InitRag ==
    /\ rag \in [collection : {EmptyMap}, embedding : [RagTexts2 -> 0..MaxDistance],
                 last : {[op |-> "init"]}]
    /\ PipelineIdle
    /\ ApiIdle
    /\ bs = Idle /\ rch = Idle /\ pp = Idle /\ kb = Idle
    /\ cs = Idle /\ ba = Idle /\ rt = Idle

\* example.prepare_and_ingest_documents for one document:
\* index_documents(prepare_document_for_indexing(doc_id, text, metadata))
RagIngest(doc_id, text) ==
    LET records == RagRecords(PrepareDocumentForIndexing(doc_id, text), rag.embedding,
                              PyStr(doc_id)) IN
    /\ \E outcome \in AddOutcomes(rag.collection, records) :
          IF outcome = "raised"
          THEN rag' = [rag EXCEPT !.last = [op |-> "index_documents", doc_id |-> doc_id,
                                            outcome |-> "raised"]]
          ELSE rag' = [rag EXCEPT !.collection = CollectionAdd(rag.collection, records),
                                  !.last = [op |-> "index_documents", doc_id |-> doc_id,
                                            outcome |-> "returned"]]
    /\ UNCHANGED <<pipelineVars, apiVars, bs, rch, pp, kb, cs, ba, rt>>

\* index_document(doc_id, content, metadata)
RagIndexDocument(doc_id, content) ==
    LET records == [id \in {doc_id} |->
                       [document |-> content, metadata |-> [content |-> content],
                        distance |-> rag.embedding[content], prepared_for |-> None]] IN
    /\ \E outcome \in AddOutcomes(rag.collection, records) :
          IF outcome = "raised"
          THEN rag' = [rag EXCEPT !.last = [op |-> "index_document", doc_id |-> doc_id,
                                            outcome |-> "raised"]]
          ELSE rag' = [rag EXCEPT !.collection = CollectionAdd(rag.collection, records),
                                  !.last = [op |-> "index_document", doc_id |-> doc_id,
                                            outcome |-> "returned"]]
    /\ UNCHANGED <<pipelineVars, apiVars, bs, rch, pp, kb, cs, ba, rt>>

\* delete_document(doc_id)
RagDeleteDocument(doc_id) ==
    /\ rag' = [rag EXCEPT !.collection = CollectionDeleteIds(rag.collection, {doc_id}),
                          !.last = [op |-> "delete_document", doc_id |-> doc_id]]
    /\ UNCHANGED <<pipelineVars, apiVars, bs, rch, pp, kb, cs, ba, rt>>

\* hybrid_search(query, n_results, keyword_weight, vector_weight)
RagHybridSearch(query, n_results, keyword_weight, vector_weight) ==
    /\ \E order \in NearestOrders(rag.collection, n_results) :
          rag' = [rag EXCEPT !.last = [op |-> "hybrid_search", query |-> query,
                                       n_results |-> n_results,
                                       keyword_weight |-> keyword_weight,
                                       vector_weight |-> vector_weight,
                                       results |-> FormattedResults(rag.collection, order)]]
    /\ UNCHANGED <<pipelineVars, apiVars, bs, rch, pp, kb, cs, ba, rt>>

NextRag ==
    \/ \E d \in RagDocIds, text \in RagTexts2 : RagIngest(d, text)
    \/ \E d \in RagDocIds, text \in RagTexts2 : RagIndexDocument(d, text)
    \/ \E d \in RagDocIds : RagDeleteDocument(d)
    \/ \E n \in RagResultCounts, w \in RagWeights :
          RagHybridSearch(RagQuery, n, w.keyword_weight, w.vector_weight)

SpecRag == InitRag /\ [][NextRag]_vars

\* C15: after delete_document(doc_id) the collection holds no chunk that
\* prepare_document_for_indexing produced for doc_id.
C15_DeleteRemovesChunks ==
    [][rag'.last.op = "delete_document" =>
        \A id \in DOMAIN rag'.collection :
            rag'.collection[id].prepared_for # PyStr(rag'.last.doc_id)]_vars

----------------------------------------------------------------------------
(* core/retrieval/vector_store.py : TaxLawVectorStore                      *)
(* (specification SpecCoreStore).  update_document is two calls on the     *)
(* collection, so it takes two steps; a reader (TaxLawRetriever works on   *)
(* the same collection) can run between them.                              *)

CoreDocIds == {doc_a, doc_b}
CoreContents == {tax, dog}

NoUpdate == [pc |-> "none"]

\* the content stored under document_id, None when there is none
StoredContent(collection, document_id) ==
    IF document_id \in DOMAIN collection THEN PyStr(collection[document_id].document)
    ELSE None

CoreRecord(document_id, content) ==
    [id \in {document_id} |-> [document |-> content, metadata |-> EmptyMap]]

InitCoreStore ==
    /\ cs = [collection |-> EmptyMap, update |-> NoUpdate, last |-> [op |-> "init"],
             observed |-> None]
    /\ PipelineIdle
    /\ ApiIdle
    /\ bs = Idle /\ rch = Idle /\ pp = Idle /\ kb = Idle
    /\ rag = Idle /\ ba = Idle /\ rt = Idle

\* add_document(document_id, content, metadata)
CoreAddDocument(document_id, content) ==
    /\ cs.update = NoUpdate
    /\ \E outcome \in AddOutcomes(cs.collection, CoreRecord(document_id, content)) :
          IF outcome = "raised"
          THEN cs' = [cs EXCEPT !.last = [op |-> "add_document", document_id |-> document_id,
                                          outcome |-> "raised"]]
          ELSE cs' = [cs EXCEPT !.collection = CollectionAdd(cs.collection,
                                                  CoreRecord(document_id, content)),
                                !.last = [op |-> "add_document", document_id |-> document_id,
                                          outcome |-> "returned"]]
    /\ UNCHANGED <<pipelineVars, apiVars, bs, rch, pp, kb, rag, ba, rt>>

\* delete_document(document_id)
CoreDeleteDocument(document_id) ==
    /\ cs.update = NoUpdate
    /\ cs' = [cs EXCEPT !.collection = CollectionDeleteIds(cs.collection, {document_id}),
                        !.last = [op |-> "delete_document", document_id |-> document_id]]
    /\ UNCHANGED <<pipelineVars, apiVars, bs, rch, pp, kb, rag, ba, rt>>

\* update_document, first half: self.delete_document(document_id).  The
\* version the call found is kept as history.
UpdateDelete(document_id, content) ==
    /\ cs.update = NoUpdate
    /\ cs' = [cs EXCEPT !.collection = CollectionDeleteIds(cs.collection, {document_id}),
                        !.update = [pc |-> "deleted", document_id |-> document_id,
                                    content |-> content,
                                    previous |-> StoredContent(cs.collection, document_id)],
                        !.last = [op |-> "update_document", document_id |-> document_id,
                                  outcome |-> "running"]]
    /\ UNCHANGED <<pipelineVars, apiVars, bs, rch, pp, kb, rag, ba, rt>>

\* update_document, second half: self.add_document(document_id, content,
\* metadata), which returns or raises (embedding or storage failure)
UpdateAdd ==
    /\ cs.update.pc = "deleted"
    /\ LET records == CoreRecord(cs.update.document_id, cs.update.content) IN
       \E outcome \in AddOutcomes(cs.collection, records) :
          cs' = [cs EXCEPT !.collection = IF outcome = "raised" THEN @
                                          ELSE CollectionAdd(@, records),
                            !.update = NoUpdate,
                            !.last = [op |-> "update_document",
                                      document_id |-> cs.update.document_id,
                                      content |-> cs.update.content,
                                      previous |-> cs.update.previous,
                                      outcome |-> IF outcome = "raised" THEN "raised"
                                                  ELSE "returned"]]
    /\ UNCHANGED <<pipelineVars, apiVars, bs, rch, pp, kb, rag, ba, rt>>

\* a reader looks a document up, at any time
CoreRead(document_id) ==
    /\ cs' = [cs EXCEPT !.observed = [document_id |-> document_id,
                                      content |-> StoredContent(cs.collection, document_id),
                                      during_update |-> cs.update # NoUpdate]]
    /\ UNCHANGED <<pipelineVars, apiVars, bs, rch, pp, kb, rag, ba, rt>>

NextCoreStore ==
    \/ \E d \in CoreDocIds, c \in CoreContents : CoreAddDocument(d, c)
    \/ \E d \in CoreDocIds : CoreDeleteDocument(d)
    \/ \E d \in CoreDocIds, c \in CoreContents : UpdateDelete(d, c)
    \/ UpdateAdd
    \/ \E d \in CoreDocIds : CoreRead(d)

SpecCoreStore == InitCoreStore /\ [][NextCoreStore]_vars

\* C16: while update_document(d, new) runs, and after its add step has
\* failed, the store holds d with the content it had before the call or with
\* the new content (when d was stored before the call).
C16_UpdateAtomic ==
    /\ (cs.update # NoUpdate /\ cs.update.previous # None)
       => StoredContent(cs.collection, cs.update.document_id)
             \in {cs.update.previous, PyStr(cs.update.content)}
    /\ (cs.last.op = "update_document" /\ cs.last.outcome = "raised"
           /\ cs.last.previous # None)
       => StoredContent(cs.collection, cs.last.document_id)
             \in {cs.last.previous, PyStr(cs.last.content)}

----------------------------------------------------------------------------
(* knowledge_base/src/knowledge_base.py : TaxLawKnowledgeBase              *)
(* (specification SpecBatch: batch_add_documents, one step per file of the *)
(* walk).  `failed` and `stored` are history: the files whose add_document *)
(* raised, and the files whose chunks went into the collection.            *)

a_txt == <<"a", ".", "t", "x", "t">>
b_txt == <<"b", ".", "t", "x", "t">>
a_md == <<"a", ".", "m", "d">>
FileExtensions == {<<".", "p", "d", "f">>, <<".", "t", "x", "t">>, <<".", "j", "s", "o", "n">>}

\* str.endswith
EndsWith(s, suffix) ==
    Len(s) >= Len(suffix) /\ SubSeq(s, Len(s) - Len(suffix) + 1, Len(s)) = suffix

\* any(filename.lower().endswith(ext) for ext in file_extensions)
HasExtension(filename) == \E ext \in FileExtensions : EndsWith(Lower(filename), ext)

\* the files of the directory: where they are, what they hold, and whether
\* document_loader.load_document can read them
BatchFiles ==
    [dir : {<<>>, <<"s", "/">>}, name : {a_txt, b_txt, a_md},
     text : {<<>>, <<"a", "a", "a">>}, readable : BOOLEAN]

FilePath(file) == file.dir \o file.name

\* the walks of a directory with one file, or with one file at the top and
\* one in a subdirectory
Walks ==
    {<<f>> : f \in BatchFiles}
    \cup {<<f, g>> : f \in {h \in BatchFiles : h.dir = <<>>},
                     g \in {h \in BatchFiles : h.dir # <<>>}}

InitBatch ==
    /\ ba \in [pc : {"walk"}, files : Walks, chunk_overlap : KbOverlaps, i : {1},
                results : {EmptyMap}, files_processed : {0}, collection : {EmptyMap},
                failed : {{}}, stored : {{}}]
    /\ PipelineIdle
    /\ ApiIdle
    /\ bs = Idle /\ rch = Idle /\ pp = Idle /\ kb = Idle
    /\ rag = Idle /\ cs = Idle /\ rt = Idle

\* results[doc_id] = chunk_ids
ResultsWith(results, doc_id, chunk_ids) ==
    [k \in DOMAIN results \cup {doc_id} |->
        IF k = doc_id THEN [chunk_ids |-> chunk_ids] ELSE results[k]]

\* a file that the extension filter leaves out
BatchSkipFile ==
    /\ ba.pc = "walk" /\ ba.i <= Len(ba.files)
    /\ ~HasExtension(ba.files[ba.i].name)
    /\ ba' = [ba EXCEPT !.i = @ + 1]
    /\ UNCHANGED <<pipelineVars, apiVars, bs, rch, pp, kb, rag, cs, rt>>

\* one file: self.add_document(rel_path, chunk_size, chunk_overlap) inside
\* the try; `except Exception` logs and goes on
BatchAddFile ==
    /\ ba.pc = "walk" /\ ba.i <= Len(ba.files)
    /\ HasExtension(ba.files[ba.i].name)
    /\ LET file == ba.files[ba.i]
           document_id == file.name
           chunked == ChunkDocumentResult(Preprocess(file.text), KbChunkSize, ba.chunk_overlap)
           records == KbChunkRecords(document_id, chunked.chunks)
           logged == [ba EXCEPT !.i = @ + 1, !.failed = @ \cup {FilePath(file)}]
       IN IF ~file.readable THEN ba' = logged
          ELSE IF ~chunked.returns THEN ba' = [ba EXCEPT !.pc = "no_return"]
          ELSE \E outcome \in AddOutcomes(ba.collection, records) :
                  IF outcome = "raised" THEN ba' = logged
                  ELSE ba' = [ba EXCEPT
                                 !.i = @ + 1,
                                 !.collection = CollectionAdd(@, records),
                                 !.results = ResultsWith(@, document_id, DOMAIN records),
                                 !.files_processed = @ + 1,
                                 !.stored = @ \cup {FilePath(file)}]
    /\ UNCHANGED <<pipelineVars, apiVars, bs, rch, pp, kb, rag, cs, rt>>

\* the walk is over: `return results`
BatchReturn ==
    /\ ba.pc = "walk" /\ ba.i > Len(ba.files)
    /\ ba' = [ba EXCEPT !.pc = "done"]
    /\ UNCHANGED <<pipelineVars, apiVars, bs, rch, pp, kb, rag, cs, rt>>

NextBatch == BatchSkipFile \/ BatchAddFile \/ BatchReturn

SpecBatch == InitBatch /\ [][NextBatch]_vars

\* the file whose path is given
BatchFileAt(path) == CHOOSE f \in {ba.files[i] : i \in 1..Len(ba.files)} : FilePath(f) = path

\* C17: when batch_add_documents has returned, every file whose add failed
\* is marked as failed in the returned mapping (the call returned, so no
\* exception reported it), and every file whose chunks were stored has an
\* entry in the mapping.
C17_FailureReported ==
    ba.pc = "done"
    => /\ \A path \in ba.failed :
             /\ BatchFileAt(path).name \in DOMAIN ba.results
             /\ "error" \in DOMAIN ba.results[BatchFileAt(path).name]
       /\ \A path \in ba.stored : BatchFileAt(path).name \in DOMAIN ba.results

\* ---------------------------------------------------------------------
\* TaxLawRetriever (core/retrieval/document_retriever.py): keyword
\* extraction, keyword score and the ranking of the vector-search results
\* ---------------------------------------------------------------------

\* re.findall(r'\b\w+\b', s): the maximal runs of word characters
RECURSIVE FindWords(_)
FindWords(s) ==
    IF s = <<>> THEN <<>>
    ELSE IF Head(s) \notin WordChars THEN FindWords(Tail(s))
    ELSE LET n == CHOOSE k \in 1..Len(s) :
                    /\ \A i \in 1..k : s[i] \in WordChars
                    /\ (k = Len(s) \/ s[k + 1] \notin WordChars)
         IN <<SubSeq(s, 1, n)>> \o FindWords(SubSeq(s, n + 1, Len(s)))

Stopwords ==
    {<<"t", "h", "e">>, <<"a", "n", "d">>, <<"o", "r">>, <<"a">>,
     <<"a", "n">>, <<"i", "n">>, <<"o", "n">>, <<"a", "t">>, <<"t", "o">>,
     <<"f", "o", "r">>, <<"w", "i", "t", "h">>, <<"b", "y">>}

\* _extract_keywords: the words of the lower-cased query that are no
\* stopwords and longer than two characters, repetitions kept
ExtractKeywords(query) ==
    SelectSeq(FindWords(Lower(query)),
              LAMBDA word : word \notin Stopwords /\ Len(word) > 2)

\* matches: the number of keywords that occur in the lower-cased document
KeywordMatches(document, keywords) ==
    Cardinality({i \in 1..Len(keywords) : Contains(Lower(document), keywords[i])})

\* len(document.split()): the number of places where a word begins
WordCount(document) ==
    Cardinality({i \in 1..Len(document) :
                    /\ document[i] \notin Whitespace
                    /\ (i = 1 \/ document[i - 1] \in Whitespace)})

\* _calculate_keyword_score as an exact fraction num/den:
\* 0.0 without keywords, else min(matches / (len(keywords) * words / 100), 1.0);
\* a document without words divides by zero
KeywordScoreRaises(document, keywords) ==
    keywords # <<>> /\ WordCount(document) = 0

CalculateKeywordScore(document, keywords) ==
    LET matches == KeywordMatches(document, keywords)
        den     == Len(keywords) * WordCount(document)
    IN IF keywords = <<>> THEN [num |-> 0, den |-> 1]
       ELSE IF 100 * matches >= den THEN [num |-> 1, den |-> 1]
       ELSE [num |-> 100 * matches, den |-> den]

\* distances are counted in tenths
DistanceUnit == 10

\* the sort key relevance_score + keyword_score, as a fraction
SortKey(doc) ==
    [num |-> doc.relevance_score * doc.keyword_score.den
             + DistanceUnit * doc.keyword_score.num,
     den |-> DistanceUnit * doc.keyword_score.den]

KeyLess(a, b) == a.num * b.den < b.num * a.den

\* variant: ascending order
RECURSIVE InsertAscending(_, _)
InsertAscending(doc, sorted) ==
    IF sorted = <<>> THEN <<doc>>
    ELSE IF KeyLess(SortKey(doc), SortKey(Head(sorted)))
         THEN <<doc>> \o sorted
         ELSE <<Head(sorted)>> \o InsertAscending(doc, Tail(sorted))

\* list.sort(key=..., reverse=True): descending and stable, elements with
\* equal keys keep their order
RECURSIVE InsertDescending(_, _)
InsertDescending(doc, sorted) ==
    IF sorted = <<>> THEN <<doc>>
    ELSE IF KeyLess(SortKey(Head(sorted)), SortKey(doc))
         THEN <<doc>> \o sorted
         ELSE <<Head(sorted)>> \o InsertDescending(doc, Tail(sorted))

RECURSIVE SortDescending(_)
SortDescending(docs) ==
    IF docs = <<>> THEN <<>>
    ELSE InsertDescending(docs[Len(docs)],
                          SortDescending(SubSeq(docs, 1, Len(docs) - 1)))

\* the loop over the query results: one dictionary per result
ScoredDocuments(results, keywords) ==
    [i \in 1..Len(results) |->
        [id              |-> results[i].id,
         content         |-> results[i].content,
         relevance_score |-> results[i].distance,
         keyword_score   |-> CalculateKeywordScore(results[i].content, keywords)]]

\* retrieve_tax_laws on the results of collection.query: an outcome record
RetrieveTaxLaws(query, results, n_results) ==
    LET keywords == ExtractKeywords(query) IN
    IF \E i \in 1..Len(results) : KeywordScoreRaises(results[i].content, keywords)
    THEN [outcome |-> "raised", error |-> "ZeroDivisionError"]
    ELSE [outcome   |-> "returned",
          documents |-> Slice(SortDescending(ScoredDocuments(results, keywords)),
                              0, n_results)]

\* document texts: sixty words with none, one or two of the keywords, a
\* longer text with both keywords, and a text without words
Filler(n) == [i \in 1..(2 * n) |-> IF i % 2 = 1 THEN " " ELSE "x"]
long_none == <<"x">> \o Filler(59)
long_tax == tax \o Filler(59)
long_both == tax_credit \o Filler(58)
padded_both == tax_credit \o Filler(128)
RtContents == {long_none, long_tax, long_both, <<>>}
RaisedContents == {long_tax, long_both, padded_both}

the_tax_credit == <<"T", "h", "e", " ">> \o tax_credit
to_a == <<"t", "o", " ", "a">>
RtQueries == {the_tax_credit, to_a}
RtResultCounts == {1, 2}
RtIds == <<"d1", "d2", "d3">>

\* collection.query(n_results = n_results * 2): at most 2 * n_results
\* results of a collection of up to three documents, nearest first
QueryResults(n_results) ==
    UNION {
      {r \in [1..n -> [id : {RtIds[i] : i \in 1..3}, content : RtContents,
                       distance : 0..MaxDistance]] :
          /\ \A i \in 1..n : r[i].id = RtIds[i]
          /\ \A i \in 1..(n - 1) : r[i].distance <= r[i + 1].distance}
      : n \in 1..Min(3, 2 * n_results)}

NoRanking == [outcome |-> "none"]

InitRetriever ==
    /\ \E query \in RtQueries, n_results \in RtResultCounts :
         \E results \in QueryResults(n_results) :
            rt = [pc |-> "ready", query |-> query, n_results |-> n_results,
                  results |-> results, ranking |-> NoRanking,
                  raised |-> 0, previous |-> <<>>,
                  raised_ranking |-> NoRanking]
    /\ PipelineIdle
    /\ ApiIdle
    /\ bs = Idle /\ rch = Idle /\ pp = Idle /\ kb = Idle
    /\ rag = Idle /\ cs = Idle /\ ba = Idle

\* retrieve_tax_laws(query, n_results)
Retrieve ==
    /\ rt.pc = "ready"
    /\ rt' = [rt EXCEPT !.pc = "ranked",
                        !.ranking = RetrieveTaxLaws(rt.query, rt.results,
                                                    rt.n_results)]
    /\ UNCHANGED <<pipelineVars, apiVars, bs, rch, pp, kb, rag, cs, ba>>

\* the same call after the text of result k was replaced by one in which
\* more of the keywords occur; distances and the other results are the same
RetrieveRaised(k, content) ==
    /\ rt.pc = "ranked"
    /\ rt.ranking.outcome = "returned"
    /\ k \in 1..Len(rt.results)
    /\ KeywordMatches(content, ExtractKeywords(rt.query))
         > KeywordMatches(rt.results[k].content, ExtractKeywords(rt.query))
    /\ LET results == [rt.results EXCEPT ![k].content = content] IN
       rt' = [rt EXCEPT !.pc = "compared",
                        !.results = results,
                        !.raised = k,
                        !.previous = rt.results,
                        !.raised_ranking = RetrieveTaxLaws(rt.query, results,
                                                           rt.n_results)]
    /\ UNCHANGED <<pipelineVars, apiVars, bs, rch, pp, kb, rag, cs, ba>>

NextRetriever ==
    \/ Retrieve
    \/ \E k \in 1..3, content \in RaisedContents : RetrieveRaised(k, content)

SpecRetriever == InitRetriever /\ [][NextRetriever]_vars

\* C18: in the list retrieve_tax_laws returns, of two candidates with equal
\* keyword_score the one with the smaller vector distance is never ranked
\* below the one with the larger distance
C18_SmallerDistanceFirst ==
    (rt.pc = "ranked" /\ rt.ranking.outcome = "returned") =>
        \A i, j \in 1..Len(rt.ranking.documents) :
            LET a == rt.ranking.documents[i]
                b == rt.ranking.documents[j]
            IN (/\ i < j
                /\ a.keyword_score.num * b.keyword_score.den
                     = b.keyword_score.num * a.keyword_score.den)
               => a.relevance_score <= b.relevance_score

\* position of a candidate in a returned list; one past the end when the
\* candidate is not in the list
PositionOf(documents, id) ==
    IF \E i \in 1..Len(documents) : documents[i].id = id
    THEN CHOOSE i \in 1..Len(documents) : documents[i].id = id
    ELSE Len(documents) + 1

\* the text of the raised candidate grew by no more than the keywords that
\* were added to it
OnlyKeywordsAdded ==
    LET keywords == ExtractKeywords(rt.query)
        before   == rt.previous[rt.raised].content
        after    == rt.results[rt.raised].content
    IN WordCount(after) - WordCount(before)
         <= KeywordMatches(after, keywords) - KeywordMatches(before, keywords)

----------------------------------------------------------------------------
(* ai_engine/query_processor.py : calculate_confidence_score on response   *)
(* texts (specification SpecConfidence).  The function reads of the text   *)
(* its length, the uncertainty phrases that occur in it and the words of   *)
(* the context that occur in it.                                           *)

\* lines 275-283
UncertaintyPhrases ==
    <<<<"I", "'", "m", " ", "n", "o", "t", " ", "s", "u", "r", "e">>,
      <<"I", " ", "d", "o", "n", "'", "t", " ", "k", "n", "o", "w">>,
      <<"I", "t", "'", "s", " ", "u", "n", "c", "l", "e", "a", "r">>,
      <<"I", "'", "m", " ", "u", "n", "c", "e", "r", "t", "a", "i", "n">>,
      <<"I", " ", "d", "o", "n", "'", "t", " ", "h", "a", "v", "e", " ",
        "e", "n", "o", "u", "g", "h", " ", "i", "n", "f", "o", "r", "m",
        "a", "t", "i", "o", "n">>,
      <<"I", "t", "'", "s", " ", "d", "i", "f", "f", "i", "c", "u", "l",
        "t", " ", "t", "o", " ", "d", "e", "t", "e", "r", "m", "i", "n",
        "e">>,
      <<"I", " ", "c", "a", "n", "n", "o", "t", " ", "p", "r", "o", "v",
        "i", "d", "e">>>>

\* line 286: the number of listed phrases that occur in the response,
\* both in lower case
UncertaintyCount(text) ==
    Cardinality({i \in 1..Len(UncertaintyPhrases) :
                    Contains(Lower(text), Lower(UncertaintyPhrases[i]))})

\* the words of the context items, in lower case
ContextWords(context) ==
    IF Truthy(context)
    THEN UNION {{Lower(Split(context.v[i])[j]) : j \in 1..Len(Split(context.v[i]))}
                : i \in 1..Len(context.v)}
    ELSE {}

\* what calculate_confidence_score reads of a response text
TextFeatures(text, context) ==
    [len |-> Len(text), uncertainty |-> UncertaintyCount(text),
     contains |-> {w \in ContextWords(context) : Contains(Lower(text), w)}]

\* response texts: an opening followed by n further characters
not_sure == UncertaintyPhrases[1]
dont_know == UncertaintyPhrases[2]
deduction == <<"d", "e", "d", "u", "c", "t", "i", "o", "n">>
Openings ==
    {<<>>,
     not_sure,
     not_sure \o <<" ">> \o dont_know,
     dont_know \o <<" ">> \o dont_know,
     dont_know \o <<" ">> \o Lower(dont_know),
     not_sure \o dont_know \o UncertaintyPhrases[3] \o UncertaintyPhrases[4],
     deduction \o <<" ">> \o credit}
TailLengths == {0, 50, 100, 1001}
CitationLists == {{}, {"Section 179"}, {"Section 179", "IRS Publication 17"},
                  {"Section 179", "IRS Publication 17", "IRC 162"},
                  {"Section 179", "IRS Publication 17", "IRC 162", "IRS Notice 1"}}
ScoreContexts ==
    {None, PyList(<<>>), PyList(<<deduction>>),
     PyList(<<deduction, tax_credit>>),
     PyList(<<deduction, tax_credit, <<"D", "e", "d", "u", "c", "t", "i", "o", "n">>>>)}

InitConfidence ==
    /\ \E opening \in Openings, n \in TailLengths,
          citations \in CitationLists, context \in ScoreContexts :
          cf = [pc |-> "ready", response |-> opening \o Rep("x", n),
                citations |-> citations, context |-> context,
                unclamped |-> 0, score |-> 0]
    /\ PipelineIdle
    /\ bs = Idle /\ rch = Idle /\ pp = Idle /\ kb = Idle
    /\ rag = Idle /\ cs = Idle /\ ba = Idle /\ rt = Idle
    /\ ep = Idle /\ aq = Idle

\* calculate_confidence_score(response, citations, context)
ScoreResponse ==
    /\ cf.pc = "ready"
    /\ LET response == TextFeatures(cf.response, cf.context) IN
       cf' = [cf EXCEPT
                !.pc = "scored",
                !.unclamped = UnclampedScore(response, cf.citations, cf.context),
                !.score = CalculateConfidenceScore(response, cf.citations,
                                                   cf.context)]
    /\ UNCHANGED <<pipelineVars, bs, rch, pp, kb, rag, cs, ba, rt, ep, aq>>

NextConfidence == ScoreResponse

SpecConfidence == InitConfidence /\ [][NextConfidence]_vars

\* C21: calculate_confidence_score returns a value between 0.0 and 1.0
\* inclusive for every response text, citation list and context list
C21_ScoreBounded ==
    cf.pc = "scored" => (0 <= cf.score /\ cf.score <= 100)

\* C21 witness: the adjustments add up to more than 1.0 and 1.0 is returned
C21_Witness ==
    cf.pc = "scored" /\ cf.unclamped > 100 /\ cf.score = 100

\* the occurrences of the listed phrases in the text, letter case ignored
Occurrences(text) ==
    LET lower == Lower(text)
        at(phrase) == {i \in 0..(Len(lower) - Len(phrase)) :
                          SubSeq(lower, i + 1, i + Len(phrase)) = Lower(phrase)}
    IN Cardinality({<<k, i>> \in (1..Len(UncertaintyPhrases)) \X (0..Len(text)) :
                       i \in at(UncertaintyPhrases[k])})

\* C22: before clamping the score is lower by exactly min(0.1 x n, 0.3)
\* than the same computation without uncertainty phrases, n the number of
\* occurrences of the listed phrases in the response
C22_PenaltyPerOccurrence ==
    cf.pc = "scored" =>
        LET response == TextFeatures(cf.response, cf.context)
            without  == [response EXCEPT !.uncertainty = 0]
        IN cf.unclamped = UnclampedScore(without, cf.citations, cf.context)
                            - Min(10 * Occurrences(cf.response), 30)

----------------------------------------------------------------------------
(* Further properties of process_tax_query (Spec) *)

\* C23: when the retrieval yields no context for the query, the call raises
\* no exception and returns a record with a confidence_score of at most 0.6
C23_EmptyIndexLowConfidence ==
    (/\ IsQueryCall
     /\ call.retrievals = 1
     /\ call.retrieval.kind = "list"
     /\ call.retrieval.refs = <<>>)
    => (ReturnedRecord /\ call.result.confidence_score <= 60)

\* C24: after process_tax_query(q) returned for a call without context,
\* QueryCache.get(preprocess_query(q)) without a context argument returns
\* the stored record
C24_CachedUnderQueryAlone ==
    (IsQueryCall /\ call.outcome = "returned" /\ call.context = None)
    => CacheGet(PreprocessQuery(call.query), None) = call.result

\* C25: process_tax_query("") returns, without raising, a record whose
\* query field is the empty string and that has a response field
C25_EmptyQueryAnswered ==
    (IsQueryCall /\ call.query = <<>>)
    => (/\ call.outcome = "returned"
        /\ "response" \in DOMAIN call.result
        /\ call.result.query = <<>>)

\* the texts that stand for a failed generation
FailureTexts == {IncompleteAnswerApology, ExceptionApology, ApiErrorApology(503)}

\* C26: a response produced while the generation backend was failing is not
\* stored in the cache, and a later process_tax_query for the same query is
\* not answered with it from the cache without a new generation
C26_FailureNotCached ==
    /\ \A key \in DOMAIN memory_cache :
          memory_cache[key].response \notin FailureTexts
    /\ (IsQueryCall /\ call.outcome = "returned" /\ call.generations = 0)
          => call.result.response \notin FailureTexts

\* C27: process_tax_query leaves the caller's context list as it was, and
\* the references are in the prompt in the order of the caller's list
C27_ContextUntouched ==
    (IsQueryCall /\ call.context # None)
    => (/\ call.context_after = call.context
        /\ (call.generations = 1 => call.prompt.references = call.context.v))

----------------------------------------------------------------------------
(* main.py : the FastAPI application around process_tax_query              *)
(* (specification SpecEndpoint).  ai_engine/validation.py is not part of   *)
(* the sources: what validate_query and validate_ai_response answer is an  *)
(* input of the request, resp. a choice of the step.                       *)

\* validate_query(request.query): empty, too short, too long and
\* disallowed queries are rejected with a message
ValidateQuery(request) ==
    IF request.valid THEN [is_valid |-> TRUE, error_message |-> None]
    ELSE [is_valid |-> FALSE, error_message |-> PyStr(<<"i", "n", "v", "a", "l", "i", "d">>)]

\* the requests posted: QueryRequest(query, context) and whether
\* validate_query accepts the query
EndpointRequests ==
    {[query |-> tax_credit, context |-> None, valid |-> TRUE],
     [query |-> the_tax_credit, context |-> None, valid |-> TRUE],
     [query |-> Tax, context |-> None, valid |-> FALSE],
     [query |-> <<>>, context |-> None, valid |-> FALSE]}

\* the answer of the server to a request
HttpAnswer(status_code, content) == [status_code |-> status_code, content |-> content]

ModelStillLoading == "AI model is still loading. Please try again in a moment."

\* module import: the application object, the singletons query_cache and
\* model_loader, nothing loaded, the startup event not yet run
InitEndpoint ==
    /\ use_redis = FALSE
    /\ cache_ttl = DefaultTtl
    /\ memory_cache = EmptyMap
    /\ redis = EmptyMap
    /\ set_log = EmptyMap
    /\ now = 0
    /\ api_mode \in BOOLEAN
    /\ model = None
    /\ tokenizer = None
    /\ call = IdleCall
    /\ kin = IdleKey
    /\ kout = IdleKey
    /\ cd = IdleChunk
    /\ bs = Idle /\ rch = Idle /\ pp = Idle /\ kb = Idle
    /\ rag = Idle /\ cs = Idle /\ ba = Idle /\ rt = Idle
    /\ cf = Idle /\ aq = Idle
    /\ ep = [op |-> "import", started |-> FALSE, load_returned |-> None]

\* startup_event: model_loader.load_model(), its result is dropped
StartupEvent ==
    /\ ~ep.started
    /\ \E load \in LoadOutcomes(api_mode) :
          /\ tokenizer' = TokenizerAfterLoad(tokenizer, load)
          /\ model' = ModelAfterLoad(api_mode, model, load)
          /\ ep' = [op |-> "startup", started |-> TRUE,
                    load_returned |-> [t |-> "bool", v |-> LoadModelResult(load)]]
    /\ UNCHANGED <<cacheVars, api_mode, call, keyVars, cd,
                   bs, rch, pp, kb, rag, cs, ba, rt, cf, aq>>

\* GET /health
HealthCheck ==
    /\ ep.started
    /\ ep' = [op |-> "health_check", started |-> TRUE,
              load_returned |-> ep.load_returned,
              request |-> None,
              answer |-> HttpAnswer(200, [status |-> "healthy",
                                          model_loaded |-> model # None])]
    /\ UNCHANGED <<pipelineVars, bs, rch, pp, kb, rag, cs, ba, rt, cf, aq>>

\* what query_endpoint answers after process_tax_query: a ValueError
\* becomes 400, any other exception 500, a record that validate_ai_response
\* rejects 422, otherwise the answer is built from the record
AnswerAfterProcessing(finished, response_valid) ==
    IF finished.outcome \in {"ValueError: Query cannot be empty",
                             "ValueError: Failed to load AI model"}
    THEN HttpAnswer(400, finished.outcome)
    ELSE IF finished.outcome # "returned"
    THEN HttpAnswer(500, "An unexpected error occurred while processing your tax query.")
    ELSE IF ~response_valid
    THEN HttpAnswer(422, "Invalid or incomplete AI response generated.")
    ELSE HttpAnswer(200, [response |-> finished.result.response,
                          citations |-> finished.result.citations,
                          confidence_score |-> finished.result.confidence_score,
                          processing_time |-> 0])

\* POST /api/v1/query
QueryEndpoint(request) ==
    /\ ep.started
    /\ LET validated == ValidateQuery(request)
           answered(answer) ==
               ep' = [op |-> "query_endpoint", started |-> TRUE,
                      load_returned |-> ep.load_returned,
                      request |-> request, answer |-> answer]
       IN
       IF ~validated.is_valid
       THEN /\ answered(HttpAnswer(400, validated.error_message))
            /\ UNCHANGED <<cacheVars, loaderVars, call>>
       ELSE IF model = None
       THEN /\ answered(HttpAnswer(503, ModelStillLoading))
            /\ UNCHANGED <<cacheVars, loaderVars, call>>
       ELSE /\ ProcessTaxQuery(request.query, request.context)
            /\ \E response_valid \in BOOLEAN :
                  answered(AnswerAfterProcessing(call', response_valid))
    /\ UNCHANGED <<keyVars, cd, bs, rch, pp, kb, rag, cs, ba, rt, cf, aq>>

NextEndpoint ==
    \/ StartupEvent
    \/ HealthCheck
    \/ \E request \in EndpointRequests : QueryEndpoint(request)

SpecEndpoint == InitEndpoint /\ [][NextEndpoint]_vars

\* C29: with hosted inference, once load_model has returned True, a valid
\* query posted to /api/v1/query is not answered with the 503 'AI model is
\* still loading'
C29_LoadedMeansServing ==
    (/\ ep.op = "query_endpoint"
     /\ api_mode
     /\ ep.load_returned = [t |-> "bool", v |-> TRUE]
     /\ ep.request.valid)
    => ep.answer.status_code # 503

\* ---------------------------------------------------------------------
\* app/api/query.py: POST /api/query under response_model=QueryResponse
\* (specification SpecAppQuery, variable aq)
\* ---------------------------------------------------------------------

\* app/models/api_models.py QueryResponse: the fields of the response model
QueryResponseFields == {"response", "citations", "confidence_score"}

\* response_model=QueryResponse: the returned dict is validated into the
\* model and serialised from it, so only the model's fields are delivered
ResponseModel(returned) ==
    [field \in QueryResponseFields |->
        IF field \in DOMAIN returned THEN returned[field] ELSE None]

\* rag.search(query, n_results=3) found nothing: one placeholder document
PlaceholderDocs == 1

\* app.ai.response_formatter.format_response(text, context_docs):
\* one citation per context document, a confidence score in hundredths
FormatResponse(response_text, context_docs, confidence) ==
    [response |-> response_text,
     citations |-> context_docs,
     confidence_score |-> confidence]

\* create_mock_query_response: the formatted mock text, marked is_mock,
\* with the confidence score lowered to at most 0.7
CreateMockQueryResponse(query, context_docs, confidence) ==
    LET formatted_response ==
            FormatResponse([text |-> "mock", docs |-> context_docs],
                           context_docs, confidence)
    IN [response |-> formatted_response.response,
        citations |-> formatted_response.citations,
        confidence_score |-> Min(70, formatted_response.confidence_score),
        is_mock |-> TRUE]

\* what rag.search and the Inference API call may do
SearchOutcomes == {"raised", "none", "one", "three"}
ApiOutcomes == {"text", "unavailable", "raised"}
FullModelOutcomes == {"returned", "raised"}
FormatterScores == {40, 60, 70, 95}

FoundDocs(search) ==
    CASE search = "none" -> PlaceholderDocs
      [] search = "one" -> 1
      [] search = "three" -> 3
      [] OTHER -> 0

\* inference_api_manager.generate_ai_response(query, use_mock)
GenerateWithInferenceApi(query, use_mock, search, api, confidence) ==
    IF search = "raised"
    THEN [kind |-> "return",
          v |-> CreateMockQueryResponse(query, 0, confidence)]
    ELSE LET context_docs == FoundDocs(search)
         IN IF use_mock
            THEN [kind |-> "return",
                  v |-> CreateMockQueryResponse(query, context_docs,
                                                confidence)]
            ELSE IF api = "raised" \/ api = "unavailable"
            THEN [kind |-> "return",
                  v |-> CreateMockQueryResponse(query, context_docs,
                                                confidence)]
            ELSE [kind |-> "return",
                  v |-> FormatResponse([text |-> "model",
                                        docs |-> context_docs],
                                       context_docs, confidence)]

\* model_manager.generate_ai_response(query)
GenerateWithFullModel(query, search, full) ==
    IF search = "raised" \/ full = "raised"
    THEN [kind |-> "raise", exc |-> "RuntimeError"]
    ELSE [kind |-> "return",
          v |-> [response |-> [text |-> "model",
                               docs |-> FoundDocs(search)],
                 citations |-> FoundDocs(search),
                 confidence_score |-> 85]]

AppQueries ==
    {<<>>, <<" ">>, <<"t", "a", "x">>, <<"v", "a", "t">>, <<"i", "r", "s">>}

InitAppQuery ==
    /\ use_redis = FALSE
    /\ cache_ttl = DefaultTtl
    /\ memory_cache = EmptyMap
    /\ redis = EmptyMap
    /\ set_log = EmptyMap
    /\ now = 0
    /\ api_mode = FALSE
    /\ model = None
    /\ tokenizer = None
    /\ call = IdleCall
    /\ kin = IdleKey
    /\ kout = IdleKey
    /\ cd = IdleChunk
    /\ bs = Idle /\ rch = Idle /\ pp = Idle /\ kb = Idle
    /\ rag = Idle /\ cs = Idle /\ ba = Idle /\ rt = Idle
    /\ cf = Idle /\ ep = Idle
    /\ \E full_model_imported \in BOOLEAN :
          aq = [op |-> "import", generate_with_full_model |->
                                     full_model_imported]

\* process_query(request, use_mock): the handler and the response model
ProcessQuery(query, use_mock) ==
    /\ \E search \in SearchOutcomes, api \in ApiOutcomes,
          full \in FullModelOutcomes, confidence \in FormatterScores :
          LET generated ==
                  IF aq.generate_with_full_model /\ ~use_mock
                  THEN GenerateWithFullModel(query, search, full)
                  ELSE GenerateWithInferenceApi(query, use_mock, search,
                                                api, confidence)
              answer ==
                  IF Strip(query) = <<>>
                  THEN [status_code |-> 400, returned |-> None,
                        body |-> [detail |-> "Query cannot be empty"]]
                  ELSE IF generated.kind = "raise"
                  THEN [status_code |-> 500, returned |-> None,
                        body |-> [detail |-> "Error processing query"]]
                  ELSE [status_code |-> 200, returned |-> generated.v,
                        body |-> ResponseModel(generated.v)]
          IN aq' = [op |-> "process_query",
                    generate_with_full_model |->
                        aq.generate_with_full_model,
                    query |-> query, use_mock |-> use_mock,
                    status_code |-> answer.status_code,
                    returned |-> answer.returned,
                    body |-> answer.body]
    /\ UNCHANGED <<pipelineVars, bs, rch, pp, kb, rag, cs, ba, rt, cf, ep>>

NextAppQuery ==
    \E query \in AppQueries, use_mock \in BOOLEAN :
        ProcessQuery(query, use_mock)

SpecAppQuery == InitAppQuery /\ [][NextAppQuery]_vars

\* C30: when POST /api/query answers 200 with a mock-substituted response
\* (the dict the handler returns carries is_mock), the body delivered to
\* the client under the QueryResponse model still contains is_mock
C30_MockMarkerDelivered ==
    (/\ aq.op = "process_query"
     /\ aq.status_code = 200
     /\ "is_mock" \in DOMAIN aq.returned)
    => "is_mock" \in DOMAIN aq.body

====
